---- MODULE Spec2Model ----
(***************************************************************************)
(* Radiowecker: the playback coordinator (audio.py, AudioManager), the UI  *)
(* navigation state machine (ui.py, UI / UIState), the main loop (main.py) *)
(* and the directory index (file_system.py).                               *)
(*                                                                         *)
(* Two execution contexts exist in the program: the input thread           *)
(* (hardware.py, HardwareInput.input_loop), which calls UI.handle_button   *)
(* directly, and the main loop (main.py, RadioWecker.main_loop).           *)
(*                                                                         *)
(* File and directory names are sequences of character codes, so that      *)
(* startswith('.'), os.path.splitext, str.lower and sorted() are computed  *)
(* the way Python computes them.  A path is the sequence of its            *)
(* components: "/" is <<>>, "/mnt/musik" is <<mnt, musik>>.                *)
(***************************************************************************)
EXTENDS Integers, Sequences, FiniteSets, TLC

VARIABLES
    tree,     \* the file system: path of a directory |-> its content
    audio,    \* the AudioManager object (audio.py)
    ui,       \* the UIState object (ui.py)
    hw,       \* the HardwareOutput object (hardware.py)
    mainpc,   \* position of the main thread in main.py
    probe,    \* the last application of a function called on its own
    settings, \* the Settings object (settings.py) and its file
    now,      \* time.time(), in seconds since the program started
    last_time \* main_loop's last_time: when the timer branch last ran

vars == <<tree, audio, ui, hw, mainpc, probe, settings, now, last_time>>

\* Python's None
None == [none |-> TRUE]

----------------------------------------------------------------------------
(* Character codes and names                                               *)

DOT == 46

\* "<dieser Ordner>"
THIS_DIR == <<60, 100, 105, 101, 115, 101, 114, 32, 79, 114, 100, 110, 101, 114, 62>>
\* audio.py: "<zurück>"
BACK == <<60, 122, 117, 114, 252, 99, 107, 62>>
\* audio_types.py (imported by file_system.py): "<zurÃ¼ck>"
FS_BACK == <<60, 122, 117, 114, 195, 188, 99, 107, 62>>
\* "Directory not found"
NAME_NOT_FOUND == <<68, 105, 114, 101, 99, 116, 111, 114, 121, 32, 110, 111, 116, 32, 102, 111, 117, 110, 100>>
\* "USB not mounted"
NAME_USB_NOT_MOUNTED == <<85, 83, 66, 32, 110, 111, 116, 32, 109, 111, 117, 110, 116, 101, 100>>
\* "SD card not mounted"
NAME_NOT_MOUNTED == <<83, 68, 32, 99, 97, 114, 100, 32, 110, 111, 116, 32, 109, 111, 117, 110, 116, 101, 100>>
\* "Permission denied"
NAME_DENIED == <<80, 101, 114, 109, 105, 115, 115, 105, 111, 110, 32, 100, 101, 110, 105, 101, 100>>
\* "Empty directory"
NAME_EMPTY == <<69, 109, 112, 116, 121, 32, 100, 105, 114, 101, 99, 116, 111, 114, 121>>

\* [".mp3", ".wav", ".ogg", ".m4a", ".flac"]
SUPPORTED_AUDIO_EXTENSIONS ==
    { <<46, 109, 112, 51>>, <<46, 119, 97, 118>>, <<46, 111, 103, 103>>,
      <<46, 109, 52, 97>>, <<46, 102, 108, 97, 99>> }

\* str.startswith('.')
StartsWithDot(name) == Len(name) > 0 /\ name[1] = DOT

\* str.lower() on the ASCII letters
LowerChar(c) == IF c >= 65 /\ c <= 90 THEN c + 32 ELSE c

Lower(name) == [i \in 1..Len(name) |-> LowerChar(name[i])]

\* os.path.splitext(name)[1]: the part from the last dot on, unless only
\* dots precede that dot (a leading-dot name has no extension)
SplitExt(name) ==
    LET dots == {i \in 1..Len(name) : name[i] = DOT}
    IN  IF dots = {} THEN <<>>
        ELSE LET last == CHOOSE i \in dots : \A j \in dots : j <= i
             IN  IF \E k \in 1..(last - 1) : name[k] # DOT
                 THEN SubSeq(name, last, Len(name))
                 ELSE <<>>

_is_audio_file(filename) == Lower(SplitExt(filename)) \in SUPPORTED_AUDIO_EXTENSIONS

\* Python's ordering of str: code point by code point, a proper prefix first
RECURSIVE StrLess(_, _)
StrLess(a, b) ==
    IF a = <<>> THEN b # <<>>
    ELSE IF b = <<>> THEN FALSE
    ELSE IF a[1] # b[1] THEN a[1] < b[1]
    ELSE StrLess(Tail(a), Tail(b))

\* sorted(entries)
RECURSIVE Sorted(_)
Sorted(S) ==
    IF S = {} THEN <<>>
    ELSE LET m == CHOOSE x \in S : \A y \in S \ {x} : StrLess(x, y)
         IN  <<m>> \o Sorted(S \ {m})

----------------------------------------------------------------------------
(* The file system the program runs on                                     *)

ROOT == <<>>                                        \* "/"
N_mnt == <<109, 110, 116>>
N_musik == <<109, 117, 115, 105, 107>>
sd_card_mount_point == <<N_mnt, N_musik>>           \* "/mnt/musik"

\* os.path.join(directory, entry)
Join(directory, entry) == Append(directory, entry)

\* str(Path(directory).parent); the parent of "/" is "/"
Parent(directory) ==
    IF directory = <<>> THEN <<>> ELSE SubSeq(directory, 1, Len(directory) - 1)

\* os.path.basename(path)
Basename(path) == IF path = <<>> THEN <<>> ELSE path[Len(path)]

Dir(readable, dirs, files) == [readable |-> readable, dirs |-> dirs, files |-> files]

\* os.path.exists / os.path.isdir of a directory path
Exists(path) == path \in DOMAIN tree

\* os.listdir(directory)
ListDir(directory) == tree[directory].dirs \cup tree[directory].files

IsDir(directory, entry) == entry \in tree[directory].dirs

IsFile(directory, entry) == entry \in tree[directory].files

----------------------------------------------------------------------------
(* AudioFile objects.  The class defines no __eq__, so == and list.index   *)
(* compare object identity.  A scan creates new objects and drops the old  *)
(* listing; obj tells which listing holds the object: "usb" (self.files),  *)
(* "sd" (self.sd_card_files), "found" (a result of the recursive finder)   *)
(* or "old" (a listing that has been replaced since).  A caller that       *)
(* gives no name passes os.path.basename(path), as the constructor does.   *)

AudioFile(path, is_dir, name, is_special, obj) ==
    [path |-> path, is_dir |-> is_dir,
     name |-> name,
     is_special |-> is_special, obj |-> obj]

\* a reference into listing `obj` after that listing has been replaced
Retire(ref, obj) ==
    IF ref # None /\ ref.obj = obj THEN [ref EXCEPT !.obj = "old"] ELSE ref

\* list.index(x): position (from 0) of the first element equal to x, or -1
\* for ValueError
Index(list, x) ==
    IF \E i \in 1..Len(list) : list[i] = x
    THEN (CHOOSE i \in 1..Len(list) : list[i] = x /\ \A j \in 1..(i - 1) : list[j] # x) - 1
    ELSE -1

----------------------------------------------------------------------------
(* Directory index: audio.py scan_directory / scan_sd_card_directory and   *)
(* file_system.py scan_directory build the same list; they differ in the   *)
(* root the Back entry is decided against and in the name of the entry     *)
(* for a missing path.                                                     *)

RECURSIVE DirEntries(_, _, _)
DirEntries(directory, entries, obj) ==
    IF entries = <<>> THEN <<>>
    ELSE LET entry == Head(entries)
             rest == DirEntries(directory, Tail(entries), obj)
         IN  IF IsDir(directory, entry) /\ ~StartsWithDot(entry)
             THEN <<AudioFile(Join(directory, entry), TRUE, entry, FALSE, obj)>> \o rest
             ELSE rest

RECURSIVE FileEntries(_, _, _)
FileEntries(directory, entries, obj) ==
    IF entries = <<>> THEN <<>>
    ELSE LET entry == Head(entries)
             rest == FileEntries(directory, Tail(entries), obj)
         IN  IF IsFile(directory, entry) /\ _is_audio_file(entry)
             THEN <<AudioFile(Join(directory, entry), FALSE, entry, FALSE, obj)>> \o rest
             ELSE rest

\* a scan that adds the Back entry in the root as well
ScanListingBackInRoot(directory, root_path, missing_name, back_name, obj) ==
    IF ~Exists(directory)
    THEN <<AudioFile(directory, FALSE, missing_name, TRUE, obj)>>
    ELSE IF ~tree[directory].readable
    THEN <<AudioFile(directory, FALSE, NAME_DENIED, TRUE, obj)>>
    ELSE LET entries == Sorted(ListDir(directory))
         IN  <<AudioFile(directory, FALSE, THIS_DIR, TRUE, obj),
               AudioFile(directory, FALSE, back_name, TRUE, obj)>>
             \o DirEntries(directory, entries, obj)
             \o FileEntries(directory, entries, obj)

ScanListing(directory, root_path, missing_name, back_name, obj) ==
    IF ~Exists(directory)
    THEN <<AudioFile(directory, FALSE, missing_name, TRUE, obj)>>
    ELSE IF ~tree[directory].readable
    THEN <<AudioFile(directory, FALSE, NAME_DENIED, TRUE, obj)>>
    ELSE LET entries == Sorted(ListDir(directory))
             result ==
                 <<AudioFile(directory, FALSE, THIS_DIR, TRUE, obj)>>
                 \o (IF directory # root_path
                     THEN <<AudioFile(directory, FALSE, back_name, TRUE, obj)>>
                     ELSE <<>>)
                 \o DirEntries(directory, entries, obj)
                 \o FileEntries(directory, entries, obj)
         IN  IF Len(result) = 0
             THEN <<AudioFile(directory, FALSE, NAME_EMPTY, TRUE, obj)>>
             ELSE result

\* file_system.scan_directory(directory, is_sd_card, root_path)
fs_scan_directory(directory, is_sd_card, root_path) ==
    ScanListing(directory, root_path,
                IF is_sd_card THEN NAME_NOT_MOUNTED ELSE NAME_USB_NOT_MOUNTED,
                FS_BACK, "found")

----------------------------------------------------------------------------
(* Recursive audio finder (audio.py _find_audio_files_recursively and      *)
(* file_system.py find_audio_files_recursively are the same code).         *)
(* os.walk visits a directory, then its sub-directories; the order of the  *)
(* names inside one directory is the file system's, taken here as sorted:  *)
(* the caller shuffles the result.  An unreadable directory yields         *)
(* nothing (os.walk ignores the error).                                    *)

RECURSIVE Walk(_)
RECURSIVE WalkAll(_, _)
Walk(directory) ==
    IF ~tree[directory].readable THEN <<>>
    ELSE <<directory>>
         \o WalkAll(directory,
                    SelectSeq(Sorted(tree[directory].dirs), LAMBDA d : ~StartsWithDot(d)))

WalkAll(directory, dirs) ==
    IF dirs = <<>> THEN <<>>
    ELSE Walk(Join(directory, Head(dirs))) \o WalkAll(directory, Tail(dirs))

\* the inner loop over the files of one visited directory; acc.done is set
\* by the early return
RECURSIVE FindInFiles(_, _, _, _)
FindInFiles(root, files, acc, max_files) ==
    IF files = <<>> \/ acc.done THEN acc
    ELSE LET file == Head(files)
         IN  IF StartsWithDot(file)
             THEN FindInFiles(root, Tail(files), acc, max_files)
             ELSE IF Len(acc.audio_files) >= max_files
             THEN [acc EXCEPT !.done = TRUE]
             ELSE FindInFiles(root, Tail(files),
                     IF _is_audio_file(file)
                     THEN [acc EXCEPT !.audio_files =
                              Append(@, AudioFile(Join(root, file), FALSE,
                                                  Basename(Join(root, file)), FALSE, "found"))]
                     ELSE acc,
                     max_files)

RECURSIVE FindInWalk(_, _, _)
FindInWalk(roots, acc, max_files) ==
    IF roots = <<>> \/ acc.done THEN acc
    ELSE FindInWalk(Tail(roots),
                    FindInFiles(Head(roots), Sorted(tree[Head(roots)].files), acc, max_files),
                    max_files)

_find_audio_files_recursively(directory, max_files) ==
    IF ~Exists(directory) THEN <<>>
    ELSE FindInWalk(Walk(directory), [audio_files |-> <<>>, done |-> FALSE], max_files).audio_files

----------------------------------------------------------------------------
(* Build configuration and program constants                               *)

\* audio.py: "import vlc" succeeded (the appliance has python-vlc)
VLC_AVAILABLE == TRUE

\* audio.py / hardware.py: "import RPi.GPIO" succeeded (the appliance)
RPI_HARDWARE == TRUE

\* max_files passed by both playlist builders to the recursive finder
FINDER_MAX_FILES == 100

\* the builders keep all_files[:20] of the shuffled finder result
PLAYLIST_CAP == 20

\* load_stations: stations.csv is absent, the two built-in stations
stations == <<[name |-> "Radio Example 1", url |-> "http://example.com/stream1"],
              [name |-> "Radio Example 2", url |-> "http://example.com/stream2"]>>

\* Bound of the model: Queue() is unbounded, a producer is held back while
\* MaxQueue commands are waiting
MaxQueue == 2

----------------------------------------------------------------------------
(* random.shuffle: the outcomes modelled are the rotations of the list and *)
(* of the reversed list (every permutation for lists of up to 3 entries).  *)

Reverse(s) == [i \in 1..Len(s) |-> s[Len(s) + 1 - i]]

Rotate(s, k) == SubSeq(s, k + 1, Len(s)) \o SubSeq(s, 1, k)

Shuffles(s) ==
    IF s = <<>> THEN {<<>>}
    ELSE {Rotate(s, k) : k \in 0..(Len(s) - 1)}
         \cup {Rotate(Reverse(s), k) : k \in 0..(Len(s) - 1)}

\* s[:n]
Take(s, n) == SubSeq(s, 1, IF Len(s) < n THEN Len(s) ELSE n)

Paths(list) == [i \in 1..Len(list) |-> list[i].path]

Playable(list) == SelectSeq(list, LAMBDA f : ~f.is_dir /\ ~f.is_special)

----------------------------------------------------------------------------
(* AudioManager (audio.py).  A method is an operator from the object       *)
(* before the call to the object after it; a method whose outcome depends  *)
(* on random.shuffle or on the Bluetooth tools yields the set of its       *)
(* possible outcomes.                                                      *)
(* The playback engine (VLC) is represented by player_state ("stopped",    *)
(* "playing", "paused") and player_media ("none", "station", "list");      *)
(* media_list is the content of the VLC media list.  built is "yes" or     *)
(* "no" when a playlist builder ran and "n/a" otherwise.                   *)
(* History: every command carries the serial number seq it was enqueued   *)
(* with, put_seq is the serial number the next command gets, applied_seq   *)
(* the serial number of the command most recently handed to a handler.     *)
(* Serial numbers count from the command applied before that one: when a   *)
(* command is handed to a handler, its serial number is subtracted from    *)
(* put_seq and from the serial numbers of the commands in the queue.       *)

\* Queue.put(AudioCommand(command_type, data)); `by` (history) names the
\* producer-side call that enqueued the command
Put(a, command_type, data, by) ==
    [a EXCEPT !.command_queue =
                  Append(@, [command_type |-> command_type, data |-> data,
                             seq |-> a.put_seq, by |-> by]),
              !.put_seq = @ + 1]

RetireCommand(c, obj) ==
    IF c.command_type = "PLAY_FILE" THEN [c EXCEPT !.data = Retire(@, obj)] ELSE c

\* the references held by the object when listing `obj` is replaced
RetireRefs(a, obj) ==
    [a EXCEPT !.current_file = Retire(@, obj),
              !.current_sd_file = Retire(@, obj),
              !.command_queue = [i \in 1..Len(@) |-> RetireCommand(@[i], obj)]]

\* the call scan_directory() of __init__ (directory=None, which stands for
\* self.current_dir) is written scan_directory(a, a.current_dir)
scan_directory(a, directory) ==
    [RetireRefs(a, "usb") EXCEPT
        !.current_dir = directory,
        !.files = ScanListing(directory, ROOT, NAME_NOT_FOUND, BACK, "usb")]

scan_sd_card_directory(a, directory) ==
    [RetireRefs(a, "sd") EXCEPT
        !.sd_card_dir = directory,
        !.sd_card_files = ScanListing(directory, sd_card_mount_point, NAME_NOT_MOUNTED, BACK, "sd")]

\* media_list.lock(); while count() > 0: remove_index(0); unlock()
ClearMediaList(a) == [a EXCEPT !.media_list = <<>>]

\* add_media(media_new(FILE_PATH_PREFIX + file.path)) for each file
AddMedia(a, list) == [a EXCEPT !.media_list = @ \o Paths(list)]

Built(a, ok) == [a |-> a, ok |-> ok]

\* a playlist that ends at the end of the listing instead of wrapping
RotatedPlaylistNoWrap(a, start_file, playable_files, src) ==
    LET idx == Index(playable_files, start_file)
        start_idx == IF idx = -1 THEN 0 ELSE idx
        playlist_order == SubSeq(playable_files, start_idx + 1, Len(playable_files))
    IN  Built([AddMedia(a, playlist_order) EXCEPT !.source = src], TRUE)

\* the end of both builders: the playable entries of the listing, in the
\* order of the listing, starting at start_file and wrapping around
RotatedPlaylist(a, start_file, playable_files, src) ==
    LET idx == Index(playable_files, start_file)
        start_idx == IF idx = -1 THEN 0 ELSE idx
        playlist_order == SubSeq(playable_files, start_idx + 1, Len(playable_files))
                          \o SubSeq(playable_files, 1, start_idx)
    IN  Built([AddMedia(a, playlist_order) EXCEPT !.source = src], TRUE)

_create_playlist_from_file(a0, start_file) ==
    LET a == ClearMediaList(a0)
    IN  IF start_file.is_special /\ start_file.name = THIS_DIR
        THEN LET all_files == _find_audio_files_recursively(a.current_dir, FINDER_MAX_FILES)
             IN  IF all_files # <<>>
                 THEN {Built([AddMedia(a, Take(s, PLAYLIST_CAP)) EXCEPT !.source = "USB"], TRUE)
                         : s \in Shuffles(all_files)}
                 ELSE LET playable_files == Playable(a.files)
                      IN  IF playable_files # <<>>
                          THEN {Built([AddMedia(a, playable_files) EXCEPT !.source = "USB"], TRUE)}
                          ELSE {Built(a, FALSE)}
        ELSE IF Playable(a.files) = <<>>
        THEN {Built(a, FALSE)}
        ELSE IF start_file.is_dir
        THEN LET old_dir == a.current_dir
                 a1 == scan_directory(a, start_file.path)
                 playable_files == Playable(a1.files)
             IN  IF playable_files = <<>>
                 THEN {Built(scan_directory(a1, old_dir), FALSE)}
                 ELSE {RotatedPlaylist(a1, playable_files[1], playable_files, "USB")}
        ELSE {RotatedPlaylist(a, start_file, Playable(a.files), "USB")}

_create_sd_card_playlist_from_file(a0, start_file) ==
    LET a == ClearMediaList(a0)
    IN  IF start_file.is_special /\ start_file.name = THIS_DIR
        THEN LET all_files == _find_audio_files_recursively(a.sd_card_dir, FINDER_MAX_FILES)
             IN  IF all_files # <<>>
                 THEN {Built([AddMedia(a, Take(s, PLAYLIST_CAP)) EXCEPT !.source = "SD_CARD"], TRUE)
                         : s \in Shuffles(all_files)}
                 ELSE LET playable_files == Playable(a.sd_card_files)
                      IN  IF playable_files # <<>>
                          THEN {Built([AddMedia(a, playable_files) EXCEPT !.source = "SD_CARD"], TRUE)}
                          ELSE {Built(a, FALSE)}
        ELSE IF Playable(a.sd_card_files) = <<>>
        THEN {Built(a, FALSE)}
        ELSE IF start_file.is_dir
        THEN LET old_dir == a.sd_card_dir
                 a1 == scan_sd_card_directory(a, start_file.path)
                 playable_files == Playable(a1.sd_card_files)
             IN  IF playable_files = <<>>
                 THEN {Built(scan_sd_card_directory(a1, old_dir), FALSE)}
                 ELSE {RotatedPlaylist(a1, playable_files[1], playable_files, "SD_CARD")}
        ELSE {RotatedPlaylist(a, start_file, Playable(a.sd_card_files), "SD_CARD")}

\* player.stop(); list_player.stop(); clear the media list
_stop(a) == [ClearMediaList(a) EXCEPT !.player_state = "stopped"]

\* list_player.set_media_list(self.media_list); list_player.play()
PlayList(a) == [a EXCEPT !.player_state = "playing", !.player_media = "list"]

Played(a, built) == [a |-> a, built |-> built]

play_station(a, station) == Put(a, "PLAY_STATION", station, "play_station")

play_file(a0, file) ==
    LET a == [a0 EXCEPT !.player_state = "stopped",
                        !.current_file = file,
                        !.current_station = None,
                        !.current_sd_file = None,
                        !.source = "USB"]
        enqueue(b) == Put(b, "PLAY_FILE", file, "play_file")
    IN  IF VLC_AVAILABLE
        THEN {IF r.ok THEN Played(PlayList(r.a), "yes") ELSE Played(enqueue(r.a), "no")
                : r \in _create_playlist_from_file(a, file)}
        ELSE {Played(enqueue(a), "no")}

play_sd_card_file(a0, file) ==
    LET a == [a0 EXCEPT !.player_state = "stopped",
                        !.current_sd_file = file,
                        !.current_station = None,
                        !.current_file = None,
                        !.source = "SD_CARD"]
        enqueue(b) == Put(b, "PLAY_FILE", file, "play_sd_card_file")
    IN  IF VLC_AVAILABLE
        THEN {IF r.ok THEN Played(PlayList(r.a), "yes") ELSE Played(enqueue(r.a), "no")
                : r \in _create_sd_card_playlist_from_file(a, file)}
        ELSE {Played(enqueue(a), "no")}

stop(a) == Put(a, "STOP", None, "stop")

toggle_pause(a) == Put(a, "TOGGLE_PAUSE", None, "toggle_pause")

mute_bluetooth(a) == Put(a, "MUTE_BLUETOOTH", None, "mute_bluetooth")

unmute_bluetooth(a) == Put(a, "UNMUTE_BLUETOOTH", None, "unmute_bluetooth")

\* get_bluetooth_info refreshes when 2 seconds have passed since
\* last_bt_update.  time.time() counts from 1970, so the initial
\* last_bt_update of 0 lies more than that before the start of the program.
BT_UPDATE_INTERVAL == 2

\* _update_bluetooth_connection() runs bluetoothctl.  History: bt_queries
\* holds the times of the two most recent runs.
_update_bluetooth_connection(a) ==
    [a EXCEPT !.bt_queries = IF Len(@) < 2 THEN Append(@, now) ELSE <<@[2], now>>]

\* get_bluetooth_info(force_update), as far as the refresh goes
get_bluetooth_info(a, force_update) ==
    IF ~force_update /\ now - a.last_bt_update < BT_UPDATE_INTERVAL
    THEN a
    ELSE _update_bluetooth_connection([a EXCEPT !.last_bt_update = now])

\* _update_bluetooth_connection() asks bluetoothctl first: whether a device
\* is connected is the environment's choice at each call
_mute_bluetooth(a) ==
    {IF connected THEN [_update_bluetooth_connection(a) EXCEPT !.bluetooth_muted = TRUE]
                  ELSE _update_bluetooth_connection(a)
       : connected \in BOOLEAN}

_unmute_bluetooth(a) ==
    {IF connected THEN [_update_bluetooth_connection(a) EXCEPT !.bluetooth_muted = FALSE]
                  ELSE _update_bluetooth_connection(a)
       : connected \in BOOLEAN}

_play_station(a, station) ==
    IF ~VLC_AVAILABLE THEN a
    ELSE [_stop([a EXCEPT !.current_station = station,
                          !.current_file = None,
                          !.current_sd_file = None,
                          !.source = "RADIO"])
            EXCEPT !.player_media = "station", !.player_state = "playing"]

_play_file(a, file) ==
    IF ~VLC_AVAILABLE THEN {Played(a, "n/a")}
    ELSE {IF r.ok THEN Played(PlayList(r.a), "yes") ELSE Played(r.a, "no")
            : r \in _create_playlist_from_file(
                        _stop([a EXCEPT !.current_file = file, !.current_station = None]),
                        file)}

\* a toggle that pauses a playing engine and never resumes
_toggle_pause_never_resumes(a) ==
    IF ~VLC_AVAILABLE THEN a
    ELSE IF a.player_state = "playing"
    THEN [a EXCEPT !.player_state = "paused"]
    ELSE a

\* player.is_playing() / pause() / play(); play() without a medium does
\* nothing
_toggle_pause(a) ==
    IF ~VLC_AVAILABLE THEN a
    ELSE IF a.player_state = "playing"
    THEN [a EXCEPT !.player_state = "paused"]
    ELSE IF a.player_media # "none"
    THEN [a EXCEPT !.player_state = "playing"]
    ELSE a

is_playing(a) == VLC_AVAILABLE /\ a.player_state = "playing"

\* the body of the loop of process_commands for one command, after
\* get_nowait() returned it
ApplyCommand(a0, command) ==
    LET a == [a0 EXCEPT !.applied_seq = command.seq,
                        !.put_seq = @ - command.seq,
                        !.command_queue =
                            [i \in 1..Len(@) |-> [@[i] EXCEPT !.seq = @ - command.seq]]]
    IN  CASE command.command_type = "PLAY_STATION" ->
                {Played(_play_station(a, command.data), "n/a")}
          [] command.command_type = "PLAY_FILE" -> _play_file(a, command.data)
          [] command.command_type = "STOP" -> {Played(_stop(a), "n/a")}
          [] command.command_type = "TOGGLE_PAUSE" -> {Played(_toggle_pause(a), "n/a")}
          [] command.command_type = "MUTE_BLUETOOTH" ->
                {Played(b, "n/a") : b \in _mute_bluetooth(a)}
          [] command.command_type = "UNMUTE_BLUETOOTH" ->
                {Played(b, "n/a") : b \in _unmute_bluetooth(a)}

\* a queue that hands out its newest command first
GetNowaitNewest(a) ==
    [command |-> a.command_queue[Len(a.command_queue)],
     a |-> [a EXCEPT !.command_queue = SubSeq(@, 1, Len(@) - 1)]]

\* command = self.command_queue.get_nowait(), on a queue that is not empty
GetNowait(a) ==
    [command |-> Head(a.command_queue), a |-> [a EXCEPT !.command_queue = Tail(@)]]

Navigated(a, ret, call, built) == [a |-> a, ret |-> ret, call |-> call, built |-> built]

navigate_to(a, audio_file) ==
    IF audio_file.is_dir /\ ~audio_file.is_special
    THEN LET a1 == scan_directory(a, audio_file.path)
         IN  {Navigated([a1 EXCEPT !.current_file =
                             IF Len(a1.files) > 0 THEN a1.files[1] ELSE None],
                        TRUE, "none", "n/a")}
    ELSE IF audio_file.is_special /\ audio_file.name = BACK
    THEN LET parent == Parent(a.current_dir)
             old_dir == a.current_dir
             a1 == scan_directory(a, parent)
             from == {i \in 1..Len(a1.files) : a1.files[i].is_dir /\ a1.files[i].path = old_dir}
         IN  {Navigated([a1 EXCEPT !.current_file =
                             IF Len(a1.files) > 0
                             THEN IF from # {}
                                  THEN a1.files[CHOOSE i \in from : \A j \in from : i <= j]
                                  ELSE a1.files[1]
                             ELSE None],
                        TRUE, "none", "n/a")}
    ELSE {Navigated(r.a, FALSE, "play_file", r.built) : r \in play_file(a, audio_file)}

navigate_to_sd_card(a, audio_file) ==
    IF audio_file.is_dir /\ ~audio_file.is_special
    THEN LET a1 == scan_sd_card_directory(a, audio_file.path)
         IN  {Navigated([a1 EXCEPT !.current_sd_file =
                             IF Len(a1.sd_card_files) > 0 THEN a1.sd_card_files[1] ELSE None],
                        TRUE, "none", "n/a")}
    ELSE IF audio_file.is_special /\ audio_file.name = BACK
    THEN LET parent == Parent(a.sd_card_dir)
             old_dir == a.sd_card_dir
             a1 == scan_sd_card_directory(a, parent)
             from == {i \in 1..Len(a1.sd_card_files) :
                         a1.sd_card_files[i].is_dir /\ a1.sd_card_files[i].path = old_dir}
         IN  {Navigated([a1 EXCEPT !.current_sd_file =
                             IF Len(a1.sd_card_files) > 0
                             THEN IF from # {}
                                  THEN a1.sd_card_files[CHOOSE i \in from : \A j \in from : i <= j]
                                  ELSE a1.sd_card_files[1]
                             ELSE None],
                        TRUE, "none", "n/a")}
    ELSE {Navigated(r.a, FALSE, "play_sd_card_file", r.built)
            : r \in play_sd_card_file(a, audio_file)}

\* AudioManager.__init__ up to and including self.source = AudioSource.RADIO
AudioManagerInit ==
    LET a0 == [command_queue |-> <<>>, put_seq |-> 1, applied_seq |-> 0,
               bluetooth_muted |-> FALSE,
               last_bt_update |-> 0 - BT_UPDATE_INTERVAL, bt_queries |-> <<>>,
               current_dir |-> ROOT, files |-> <<>>,
               sd_card_dir |-> sd_card_mount_point, sd_card_files |-> <<>>,
               current_sd_file |-> None, current_file |-> None,
               current_station |-> stations[1],
               media_list |-> <<>>, player_state |-> "stopped", player_media |-> "none",
               source |-> "RADIO"]
        a1 == scan_directory(a0, a0.current_dir)
        a2 == [a1 EXCEPT !.current_file = IF Len(a1.files) > 0 THEN a1.files[1] ELSE None]
        a3 == scan_sd_card_directory(a2, a2.sd_card_dir)
    IN  [a3 EXCEPT !.current_sd_file =
                      IF Len(a3.sd_card_files) > 0 THEN a3.sd_card_files[1] ELSE None]

----------------------------------------------------------------------------
(* Settings (settings.py).  An item is its value_type, value, min_val,     *)
(* max_val and step; the value of the status item is text computed when    *)
(* it is shown, here the empty text.  No settings.json exists when the     *)
(* program starts, so load_settings keeps the defaults.  writes counts     *)
(* how often save_settings has written the file.                           *)

MenuItem(value_type, value, min_val, max_val, step) ==
    [value_type |-> value_type, value |-> value,
     min_val |-> min_val, max_val |-> max_val, step |-> step]

Min(a, b) == IF a < b THEN a ELSE b

Max(a, b) == IF a > b THEN a ELSE b

\* MenuItem.increase
increase(item) ==
    CASE item.value_type = "int" ->
            [item EXCEPT !.value = Min(item.max_val, @ + item.step)]
      [] item.value_type = "time" ->
            [item EXCEPT !.value = (@ + 1) % (IF item.max_val = 59 THEN 60 ELSE 24)]
      [] item.value_type = "bool" -> [item EXCEPT !.value = ~@]
      [] OTHER -> item

\* MenuItem.decrease
decrease(item) ==
    CASE item.value_type = "int" ->
            [item EXCEPT !.value = Max(item.min_val, @ - item.step)]
      [] item.value_type = "time" ->
            [item EXCEPT !.value = (@ - 1) % (IF item.max_val = 59 THEN 60 ELSE 24)]
      [] item.value_type = "bool" -> [item EXCEPT !.value = ~@]
      [] OTHER -> item

\* Settings.__init__
SettingsInit ==
    [items |-> << MenuItem("time", 7, 0, 23, 1),        \* Wecker1 Stunden
                  MenuItem("time", 0, 0, 59, 1),        \* Wecker1 Minuten
                  MenuItem("time", 8, 0, 23, 1),        \* Wecker2 Stunden
                  MenuItem("time", 0, 0, 59, 1),        \* Wecker2 Minuten
                  MenuItem("int", 128, 0, 255, 1),      \* Display Kontrast
                  MenuItem("bool", TRUE, None, None, 1),  \* Uhr im Standby
                  MenuItem("int", 100, 10, 100, 10),    \* Helligkeit
                  MenuItem("status", "", None, None, 1) >>,  \* Status Info
     current_item |-> 0,
     writes |-> 0]

\* Settings.next_item: the settings after the call; it returns whether it
\* moved, which is ~at_last_item before the call
next_item(s) ==
    IF s.current_item < Len(s.items) - 1
    THEN [s EXCEPT !.current_item = @ + 1]
    ELSE s

\* Settings.at_last_item
at_last_item(s) == s.current_item >= Len(s.items) - 1

\* Settings.save_settings
save_settings(s) == [s EXCEPT !.writes = @ + 1]

----------------------------------------------------------------------------
(* VolumeControl (volume_control.py).  mixer is None when the Digital      *)
(* mixer could not be opened, else Mixer(v) with the hardware volume v in   *)
(* 0..100: setvolume stores the value it is given and getvolume returns it.*)
(* The float products and quotients are never within rounding distance of  *)
(* an integer unless they are one exactly, so int() is the integer         *)
(* division of the exact fractions 5/2, 37/40 and 13/40.                    *)

Mixer(hw_vol) == [volume |-> hw_vol]

\* VolumeControl._scale_to_hardware
_scale_to_hardware(volume) ==
    IF volume <= 0 THEN 0
    ELSE IF volume >= 100 THEN 100
    ELSE IF volume < 20 THEN (volume * 5) \div 2
    ELSE IF volume < 60 THEN 50 + ((volume - 20) * 37) \div 40
    ELSE 87 + ((volume - 60) * 13) \div 40

\* VolumeControl._hardware_to_display
_hardware_to_display(hw_vol) ==
    IF hw_vol <= 0 THEN 0
    ELSE IF hw_vol >= 100 THEN 100
    ELSE IF hw_vol < 50 THEN (hw_vol * 2) \div 5
    ELSE IF hw_vol < 87 THEN 20 + ((hw_vol - 50) * 40) \div 37
    ELSE 60 + ((hw_vol - 87) * 40) \div 13

\* VolumeControl.get_volume
get_volume(mixer) == IF mixer = None THEN 50 ELSE _hardware_to_display(mixer.volume)

\* VolumeControl.set_volume: the mixer after the call
set_volume(mixer, volume) ==
    IF mixer = None THEN mixer
    ELSE Mixer(_scale_to_hardware(Max(0, Min(100, volume))))

\* VolumeControl.volume_up: the mixer after the call and the value returned
volume_up(mixer, step) ==
    LET m == set_volume(mixer, get_volume(mixer) + step)
    IN  [mixer |-> m, volume |-> get_volume(m)]

\* VolumeControl.volume_down
volume_down(mixer, step) ==
    LET m == set_volume(mixer, get_volume(mixer) - step)
    IN  [mixer |-> m, volume |-> get_volume(m)]

----------------------------------------------------------------------------
(* UIState and UI (ui.py).  The fields alarm_mode and is_playing are only  *)
(* drawn, nothing reads them to decide anything; they are left out.        *)

sources == <<"RADIO", "USB", "SD_CARD", "INTERNET", "BLUETOOTH">>

UIStateInit ==
    [mode |-> "NORMAL", standby |-> FALSE, current_source |-> 0, selected_file_idx |-> 1,
     volume_overlay_timeout |-> 0, volume |-> get_volume(None)]

\* the touch buttons whose debounce state is followed; handle_button has no
\* branch for them, so their callback changes nothing else
ButtonNames == {"alarm1", "alarm2"}

\* Button.__init__
Button == [pressed |-> FALSE, last_press_time |-> 0]

\* the hardware after start-up: the amplifier is enabled, the Digital mixer
\* could not be opened (VolumeControl.mixer is None), HardwareInput was
\* constructed (hardware_in is FALSE when app.hardware_in is None) with its
\* buttons, and RPi.GPIO was imported (RPI_HARDWARE)
HardwareInit ==
    [amp_enabled |-> TRUE, mixer |-> None, hardware_in |-> TRUE,
     buttons |-> [name \in ButtonNames |-> Button], RPI_HARDWARE |-> TRUE]

get_current_source(u) == sources[u.current_source + 1]

\* a source switch that opens the USB browser for the SD card as well
next_source_one_browser(u) ==
    LET u1 == [u EXCEPT !.current_source = (@ + 1) % Len(sources)]
    IN  [u1 EXCEPT !.mode =
            IF get_current_source(u1) \in {"USB", "SD_CARD"} THEN "FILE_BROWSER"
            ELSE "NORMAL"]

next_source(u) ==
    LET u1 == [u EXCEPT !.current_source = (@ + 1) % Len(sources)]
    IN  [u1 EXCEPT !.mode =
            IF get_current_source(u1) = "USB" THEN "FILE_BROWSER"
            ELSE IF get_current_source(u1) = "SD_CARD" THEN "SD_CARD_BROWSER"
            ELSE "NORMAL"]

\* the index select_next_file / select_prev_file start from
CurrentIdx(u, files, current) ==
    LET at == IF current # None THEN Index(files, current) ELSE -1
        current_idx == IF at # -1 THEN at ELSE u.selected_file_idx
    IN  IF current_idx >= Len(files) THEN 0 ELSE current_idx

\* the index select_file / select_sd_file use: the range check comes before
\* the lookup of the current file
SelectIdx(u, files, current) ==
    LET current_idx == IF u.selected_file_idx >= Len(files) THEN 0 ELSE u.selected_file_idx
        at == IF current # None THEN Index(files, current) ELSE -1
    IN  IF at # -1 THEN at ELSE current_idx

\* the entry select_file / select_sd_file act on
SelectedFile == audio.files[SelectIdx(ui, audio.files, audio.current_file) + 1]

SelectedSdFile ==
    audio.sd_card_files[SelectIdx(ui, audio.sd_card_files, audio.current_sd_file) + 1]

\* the input thread is started by HardwareInput() and lives as long as the
\* process
InputRunning == hw.hardware_in /\ mainpc # "exited"

\* a producer is held back while the queue holds MaxQueue commands
QueueFits(a) == Len(a.command_queue) <= MaxQueue

\* handle_button("power", True)
Power ==
    /\ InputRunning
    /\ ui' = [ui EXCEPT !.standby = ~@]
    /\ hw' = [hw EXCEPT !.amp_enabled = ~ui'.standby]
    /\ UNCHANGED <<tree, audio, mainpc, probe, settings, now, last_time>>

\* handle_button("source", True)
Source ==
    /\ InputRunning
    /\ ~ui.standby
    /\ QueueFits(stop(audio))
    /\ audio' = stop(audio)
    /\ ui' = next_source(ui)
    /\ UNCHANGED <<tree, hw, mainpc, probe, settings, now, last_time>>

\* handle_button("menu", True)
Menu ==
    /\ InputRunning
    /\ ~ui.standby
    /\ ui' = [ui EXCEPT !.mode = IF @ = "MENU" THEN "NORMAL" ELSE "MENU"]
    /\ UNCHANGED <<tree, audio, hw, mainpc, probe, settings, now, last_time>>

\* control_cw (step = 1) and control_ccw (step = -1) with source INTERNET
ControlStation(step) ==
    /\ InputRunning
    /\ get_current_source(ui) = "INTERNET"
    /\ Len(stations) > 0
    /\ LET at == IF audio.current_station # None
                 THEN Index(stations, audio.current_station) ELSE -1
           current_idx == IF at # -1 THEN at ELSE 0
           a == play_station(audio, stations[((current_idx + step) % Len(stations)) + 1])
       IN  /\ QueueFits(a)
           /\ audio' = a
    /\ UNCHANGED <<tree, ui, hw, mainpc, probe, settings, now, last_time>>

\* control_press with source INTERNET or BLUETOOTH
ControlPause ==
    /\ InputRunning
    /\ get_current_source(ui) \in {"INTERNET", "BLUETOOTH"}
    /\ QueueFits(toggle_pause(audio))
    /\ audio' = toggle_pause(audio)
    /\ UNCHANGED <<tree, ui, hw, mainpc, probe, settings, now, last_time>>

\* select_next_file (step = 1) and select_prev_file (step = -1)
SelectNextPrevFile(step) ==
    /\ InputRunning
    /\ get_current_source(ui) = "USB"
    /\ Len(audio.files) > 0
    /\ LET idx == (CurrentIdx(ui, audio.files, audio.current_file) + step) % Len(audio.files)
       IN  /\ ui' = [ui EXCEPT !.selected_file_idx = idx]
           /\ audio' = [audio EXCEPT !.current_file = audio.files[idx + 1]]
    /\ UNCHANGED <<tree, hw, mainpc, probe, settings, now, last_time>>

\* select_next_sd_file (step = 1) and select_prev_sd_file (step = -1)
SelectNextPrevSdFile(step) ==
    /\ InputRunning
    /\ get_current_source(ui) = "SD_CARD"
    /\ Len(audio.sd_card_files) > 0
    /\ LET idx == (CurrentIdx(ui, audio.sd_card_files, audio.current_sd_file) + step)
                     % Len(audio.sd_card_files)
       IN  /\ ui' = [ui EXCEPT !.selected_file_idx = idx]
           /\ audio' = [audio EXCEPT !.current_sd_file = audio.sd_card_files[idx + 1]]
    /\ UNCHANGED <<tree, hw, mainpc, probe, settings, now, last_time>>

\* select_file / select_sd_file with the mode forced to NORMAL after a play
AfterSelectForcesNormal(u, ret, files) ==
    [u EXCEPT !.selected_file_idx =
                  IF ret THEN 0 ELSE IF @ >= Len(files) THEN 0 ELSE @,
              !.mode = IF ret THEN @ ELSE "NORMAL"]

\* the UIState select_file / select_sd_file leave: the index is reset when
\* it is out of range and when navigate_to returned True; the mode is kept
AfterSelect(u, ret, files) ==
    [u EXCEPT !.selected_file_idx =
                  IF ret THEN 0 ELSE IF @ >= Len(files) THEN 0 ELSE @]

\* select_file: control_press with source USB
SelectFile ==
    /\ InputRunning
    /\ get_current_source(ui) = "USB"
    /\ Len(audio.files) > 0
    /\ \E r \in navigate_to(audio, SelectedFile) :
           /\ QueueFits(r.a)
           /\ audio' = r.a
           /\ ui' = AfterSelect(ui, r.ret, audio.files)
    /\ UNCHANGED <<tree, hw, mainpc, probe, settings, now, last_time>>

\* select_sd_file: control_press with source SD_CARD
SelectSdFile ==
    /\ InputRunning
    /\ get_current_source(ui) = "SD_CARD"
    /\ Len(audio.sd_card_files) > 0
    /\ \E r \in navigate_to_sd_card(audio, SelectedSdFile) :
           /\ QueueFits(r.a)
           /\ audio' = r.a
           /\ ui' = AfterSelect(ui, r.ret, audio.sd_card_files)
    /\ UNCHANGED <<tree, hw, mainpc, probe, settings, now, last_time>>

\* the steps of the input thread (hardware.py input_loop -> callback)
InputThread ==
    \/ Power
    \/ Source
    \/ Menu
    \/ \E step \in {1, -1} : ControlStation(step)
    \/ ControlPause
    \/ \E step \in {1, -1} : SelectNextPrevFile(step)
    \/ \E step \in {1, -1} : SelectNextPrevSdFile(step)
    \/ SelectFile
    \/ SelectSdFile

----------------------------------------------------------------------------
(* The main thread (main.py): main_loop, and cleanup after the loop ended. *)
(* mainpc: "loop" at the top of an iteration, "commands" inside            *)
(* process_commands, "render" before ui.render(), "cleanup" once an        *)
(* exception has left main_loop, "exited" when the process has ended.      *)

\* settings.check_alarms(): 0, 1 or 2, decided by the wall clock
AlarmValues == {0, 1, 2}

\* an iteration in which a second has passed: check_alarms(), update_status()
MainTimer ==
    /\ mainpc = "loop"
    /\ \E alarm \in AlarmValues :
         LET fire == alarm > 0 /\ ~is_playing(audio)
             a == IF fire /\ Len(stations) > 0 THEN play_station(audio, stations[1]) ELSE audio
         IN  /\ QueueFits(a)
             /\ audio' = a
             /\ ui' = [ui EXCEPT !.standby = IF fire THEN FALSE ELSE @]
    /\ mainpc' = "commands"
    /\ last_time' = now
    /\ UNCHANGED <<tree, hw, probe, settings, now>>

\* an iteration in which less than a second has passed
MainNoTimer ==
    /\ mainpc = "loop"
    /\ mainpc' = "commands"
    /\ UNCHANGED <<tree, audio, ui, hw, probe, settings, now, last_time>>

\* process_commands: get_nowait() returns a command, which is applied
ProcessCommand ==
    /\ mainpc = "commands"
    /\ audio.command_queue # <<>>
    /\ LET got == GetNowait(audio)
       IN  \E r \in ApplyCommand(got.a, got.command) : audio' = r.a
    /\ UNCHANGED <<tree, ui, hw, mainpc, probe, settings, now, last_time>>

\* a drain that uses the blocking get(): on an empty queue it waits
ProcessEmptyWaits ==
    /\ FALSE
    /\ UNCHANGED vars

\* process_commands: get_nowait() raises Empty, process_commands returns
ProcessEmpty ==
    /\ mainpc = "commands"
    /\ audio.command_queue = <<>>
    /\ mainpc' = "render"
    /\ UNCHANGED <<tree, audio, ui, hw, probe, settings, now, last_time>>

\* ui.render() raises: render_menu reads self.state.menu_title, which
\* UIState does not have, and both browsers call self.display.write_line,
\* which Display does not have.  None of them is called in standby or
\* while the volume overlay is shown.
RenderRaises(overlay) ==
    /\ ~ui.standby
    /\ ~overlay
    /\ ui.mode \in {"MENU", "FILE_BROWSER", "SD_CARD_BROWSER"}

\* the files of the browser being rendered
BrowserFiles ==
    IF ui.mode = "FILE_BROWSER" THEN audio.files ELSE audio.sd_card_files

\* ui.render() and display.show(); an exception leaves main_loop.  Whether
\* the volume overlay is shown (time.time() < volume_overlay_timeout) is
\* decided by the clock.
Render ==
    /\ mainpc = "render"
    /\ \E overlay \in BOOLEAN :
         IF RenderRaises(overlay)
         THEN /\ mainpc' = "cleanup"
              /\ ui' = IF ui.mode # "MENU" /\ ui.selected_file_idx >= Len(BrowserFiles)
                       THEN [ui EXCEPT !.selected_file_idx = 0]
                       ELSE ui
         ELSE /\ mainpc' = "loop"
              /\ ui' = ui
    /\ UNCHANGED <<tree, audio, hw, probe, settings, now, last_time>>

\* RadioWecker.cleanup(): hardware_in.cleanup() first, which raises
\* AttributeError when hardware_in is None; then audio.stop(),
\* audio.cleanup() and settings.save_settings()
RunCleanup ==
    IF hw.hardware_in
    THEN /\ QueueFits(stop(audio))
         /\ audio' = [stop(audio) EXCEPT !.player_state = "stopped"]
         /\ settings' = save_settings(settings)
    ELSE /\ audio' = audio
         /\ settings' = settings

\* main(): finally app.cleanup()
Cleanup ==
    /\ mainpc = "cleanup"
    /\ RunCleanup
    /\ mainpc' = "exited"
    /\ UNCHANGED <<tree, ui, hw, probe, now, last_time>>

\* SIGINT or SIGTERM while main_loop runs: signal_handler calls cleanup()
\* and sys.exit(0); SystemExit, or the exception cleanup() raised, leaves
\* main_loop and main() goes on to its finally block
signal_handler ==
    /\ mainpc \in {"loop", "commands", "render"}
    /\ RunCleanup
    /\ mainpc' = "cleanup"
    /\ UNCHANGED <<tree, ui, hw, probe, now, last_time>>

\* the steps of the main thread
MainThread ==
    \/ MainTimer
    \/ MainNoTimer
    \/ ProcessCommand
    \/ ProcessEmpty
    \/ Render
    \/ Cleanup

\* the engine reaches the end of the stream or of the media list
PlaybackEnds ==
    /\ mainpc # "exited"
    /\ audio.player_state = "playing"
    /\ audio' = [audio EXCEPT !.player_state = "stopped"]
    /\ UNCHANGED <<tree, ui, hw, mainpc, probe, settings, now, last_time>>

----------------------------------------------------------------------------
(* The file systems the program is run on                                  *)

N_a_mp3 == <<97, 46, 109, 112, 51>>         \* "a.mp3"
N_B_mp3 == <<66, 46, 109, 112, 51>>         \* "B.mp3"

\* the SD card is mounted and holds /mnt/musik/B.mp3 and /mnt/musik/a.mp3
TreeMounted ==
    (ROOT :> Dir(TRUE, {N_mnt}, {}))
    @@ (<<N_mnt>> :> Dir(TRUE, {N_musik}, {}))
    @@ (<<N_mnt, N_musik>> :> Dir(TRUE, {}, {N_a_mp3, N_B_mp3}))

N_r_mp3 == <<114, 46, 109, 112, 51>>        \* "r.mp3"

\* the SD card is not mounted: /mnt/musik does not exist; /r.mp3 and /a.mp3
TreeUnmounted ==
    (ROOT :> Dir(TRUE, {N_mnt}, {N_r_mp3, N_a_mp3}))
    @@ (<<N_mnt>> :> Dir(TRUE, {}, {}))

Trees == {TreeMounted, TreeUnmounted}

NoProbe == [op |-> "none"]

\* RadioWecker.init_components: Settings(), AudioManager(), HardwareOutput(),
\* UI(), set_amp_enable(True)
Init ==
    /\ tree \in Trees
    /\ audio = AudioManagerInit
    /\ ui = UIStateInit
    /\ hw = HardwareInit
    /\ settings = SettingsInit
    /\ now = 0
    /\ last_time = 0
    /\ mainpc = "loop"
    /\ probe = NoProbe

Next ==
    \/ Power
    \/ Source
    \/ Menu
    \/ \E step \in {1, -1} : ControlStation(step)
    \/ ControlPause
    \/ \E step \in {1, -1} : SelectNextPrevFile(step)
    \/ \E step \in {1, -1} : SelectNextPrevSdFile(step)
    \/ SelectFile
    \/ SelectSdFile
    \/ MainTimer
    \/ MainNoTimer
    \/ ProcessCommand
    \/ ProcessEmpty
    \/ Render
    \/ Cleanup
    \/ PlaybackEnds

Spec == Init /\ [][Next]_vars

----------------------------------------------------------------------------
(* The directory index and the playlist builders on their own: a run       *)
(* either applies the module-level functions of file_system.py and the     *)
(* finder to a directory (probe holds the call and its result), or drives  *)
(* the coordinator's scan and play methods with entries of its listings.   *)
(* process_commands is being called throughout; the caller makes its next  *)
(* call once the queue has been drained, and moves one listing away from   *)
(* the directory it had after construction at a time.                      *)

N_e == <<101>>                              \* "e"
N_x == <<120>>                              \* "x"
N_dot_h == <<46, 104>>                      \* ".h"
N_C_MP3 == <<67, 46, 77, 80, 51>>           \* "C.MP3"
N_n_txt == <<110, 46, 116, 120, 116>>       \* "n.txt"
N_dot_c_mp3 == <<46, 99, 46, 109, 112, 51>> \* ".c.mp3"
N_h_mp3 == <<104, 46, 109, 112, 51>>        \* "h.mp3"

\* /r.mp3; /mnt/musik with a.mp3, C.MP3, n.txt, the hidden file .c.mp3, the
\* directory e (n.txt only), the hidden directory .h (h.mp3) and the
\* unreadable directory x
TreeMixed ==
    (ROOT :> Dir(TRUE, {N_mnt}, {N_r_mp3}))
    @@ (<<N_mnt>> :> Dir(TRUE, {N_musik}, {}))
    @@ (<<N_mnt, N_musik>> :> Dir(TRUE, {N_e, N_dot_h, N_x},
                                   {N_a_mp3, N_C_MP3, N_n_txt, N_dot_c_mp3}))
    @@ (<<N_mnt, N_musik, N_e>> :> Dir(TRUE, {}, {N_n_txt}))
    @@ (<<N_mnt, N_musik, N_dot_h>> :> Dir(TRUE, {}, {N_h_mp3}))
    @@ (<<N_mnt, N_musik, N_x>> :> Dir(FALSE, {}, {N_h_mp3}))

\* Bound of the model: the number of files of TreeHidden
MaxHidden == 31

\* ".00.mp3", ".01.mp3", ...
HiddenName(i) == <<46, 48 + (i \div 10), 48 + (i % 10), 46, 109, 112, 51>>

\* /mnt/musik holds MaxHidden audio files, all of them hidden
TreeHidden ==
    (ROOT :> Dir(TRUE, {N_mnt}, {}))
    @@ (<<N_mnt>> :> Dir(TRUE, {N_musik}, {}))
    @@ (<<N_mnt, N_musik>> :> Dir(TRUE, {}, {HiddenName(i) : i \in 0..(MaxHidden - 1)}))

IndexTrees == {TreeMixed, TreeHidden}

\* Bound of the model: the largest max_files the finder is called with
MaxFiles == 3

\* the directories the functions are applied to: every directory of the
\* file system, and one path that does not exist
N_gone == <<103, 111, 110, 101>>            \* "gone"
ProbeDirs == DOMAIN tree \cup {<<N_mnt, N_gone>>}

Range(s) == {s[i] : i \in 1..Len(s)}

\* file_system.scan_directory(directory, is_sd_card, root_path)
FsScanDirectory ==
    /\ audio = AudioManagerInit
    /\ \E directory \in ProbeDirs, is_sd_card \in BOOLEAN,
          root_path \in {ROOT, sd_card_mount_point} :
           probe' = [op |-> "scan_directory", directory |-> directory,
                     root_path |-> root_path,
                     result |-> fs_scan_directory(directory, is_sd_card, root_path)]
    /\ UNCHANGED <<tree, audio, ui, hw, mainpc, settings, now, last_time>>

\* file_system.find_audio_files_recursively(directory, max_files) and
\* AudioManager._find_audio_files_recursively(directory, max_files)
FindAudioFiles ==
    /\ audio = AudioManagerInit
    /\ \E directory \in ProbeDirs, max_files \in 0..MaxFiles :
           probe' = [op |-> "find_audio_files_recursively", directory |-> directory,
                     max_files |-> max_files,
                     result |-> _find_audio_files_recursively(directory, max_files)]
    /\ UNCHANGED <<tree, audio, ui, hw, mainpc, settings, now, last_time>>

\* AudioManager.scan_directory(directory)
ScanDirectory ==
    /\ probe = NoProbe
    /\ audio.command_queue = <<>>
    /\ audio.sd_card_dir = sd_card_mount_point
    /\ \E directory \in ProbeDirs : audio' = scan_directory(audio, directory)
    /\ UNCHANGED <<tree, ui, hw, mainpc, probe, settings, now, last_time>>

\* AudioManager.scan_sd_card_directory(directory)
ScanSdCardDirectory ==
    /\ probe = NoProbe
    /\ audio.command_queue = <<>>
    /\ audio.current_dir = ROOT
    /\ \E directory \in ProbeDirs : audio' = scan_sd_card_directory(audio, directory)
    /\ UNCHANGED <<tree, ui, hw, mainpc, probe, settings, now, last_time>>

\* the entries a caller can hold: those of the two current listings
HeldEntries == Range(audio.files) \cup Range(audio.sd_card_files)

\* AudioManager.play_file(file)
PlayFileOf(file) ==
    /\ probe = NoProbe
    /\ audio.command_queue = <<>>
    /\ file \in HeldEntries
    /\ \E r \in play_file(audio, file) :
           /\ QueueFits(r.a)
           /\ audio' = r.a
    /\ UNCHANGED <<tree, ui, hw, mainpc, probe, settings, now, last_time>>

PlayFile == \E file \in HeldEntries : PlayFileOf(file)

\* AudioManager.play_sd_card_file(file)
PlaySdCardFileOf(file) ==
    /\ probe = NoProbe
    /\ audio.command_queue = <<>>
    /\ file \in HeldEntries
    /\ \E r \in play_sd_card_file(audio, file) :
           /\ QueueFits(r.a)
           /\ audio' = r.a
    /\ UNCHANGED <<tree, ui, hw, mainpc, probe, settings, now, last_time>>

PlaySdCardFile == \E file \in HeldEntries : PlaySdCardFileOf(file)

InitIndex ==
    /\ tree \in IndexTrees
    /\ audio = AudioManagerInit
    /\ ui = UIStateInit
    /\ hw = HardwareInit
    /\ settings = SettingsInit
    /\ now = 0
    /\ last_time = 0
    /\ mainpc = "commands"
    /\ probe = NoProbe

NextIndex ==
    \/ FsScanDirectory
    \/ FindAudioFiles
    \/ ScanDirectory
    \/ ScanSdCardDirectory
    \/ PlayFile
    \/ PlaySdCardFile
    \/ ProcessCommand

SpecIndex == InitIndex /\ [][NextIndex]_vars

----------------------------------------------------------------------------
(* The command queue on its own: any caller enqueues through the producer  *)
(* methods of the coordinator while the main loop runs in Normal mode.     *)

\* AudioManager.play_station(station)
PlayStation ==
    /\ \E station \in Range(stations) :
           /\ QueueFits(play_station(audio, station))
           /\ audio' = play_station(audio, station)
    /\ UNCHANGED <<tree, ui, hw, mainpc, probe, settings, now, last_time>>

\* AudioManager.stop()
Stop ==
    /\ QueueFits(stop(audio))
    /\ audio' = stop(audio)
    /\ UNCHANGED <<tree, ui, hw, mainpc, probe, settings, now, last_time>>

\* AudioManager.toggle_pause()
TogglePause ==
    /\ QueueFits(toggle_pause(audio))
    /\ audio' = toggle_pause(audio)
    /\ UNCHANGED <<tree, ui, hw, mainpc, probe, settings, now, last_time>>

\* AudioManager.mute_bluetooth()
MuteBluetooth ==
    /\ QueueFits(mute_bluetooth(audio))
    /\ audio' = mute_bluetooth(audio)
    /\ UNCHANGED <<tree, ui, hw, mainpc, probe, settings, now, last_time>>

\* AudioManager.unmute_bluetooth()
UnmuteBluetooth ==
    /\ QueueFits(unmute_bluetooth(audio))
    /\ audio' = unmute_bluetooth(audio)
    /\ UNCHANGED <<tree, ui, hw, mainpc, probe, settings, now, last_time>>

NextQueue ==
    \/ PlayStation
    \/ Stop
    \/ TogglePause
    \/ MuteBluetooth
    \/ UnmuteBluetooth
    \/ PlayFile
    \/ PlaySdCardFile
    \/ MainNoTimer
    \/ ProcessCommand
    \/ ProcessEmpty
    \/ Render

SpecQueue == Init /\ [][NextQueue]_vars

----------------------------------------------------------------------------
(* Properties of the coordinator and of the two threads                    *)

\* the three current_* fields that are set
CurrentSet(a) ==
    {f \in {"current_station", "current_file", "current_sd_file"} : a[f] # None}

\* C1: in every reachable state of the coordinator, at most one of
\* current_station, current_file and current_sd_file is non-null.
C1_AtMostOneCurrent == Cardinality(CurrentSet(audio)) <= 1

\* what a producer-side call is to leave alone: source, the current_*
\* fields, the media list and the engine's playing state
PlaybackState(a) ==
    <<a.source, a.current_station, a.current_file, a.current_sd_file,
      a.media_list, a.player_state>>

\* select_file reaches audio.play_file(file): the entry is neither a
\* directory nor Back
CallsPlayFile ==
    /\ SelectFile
    /\ ~(SelectedFile.is_dir /\ ~SelectedFile.is_special)
    /\ ~(SelectedFile.is_special /\ SelectedFile.name = BACK)

\* select_sd_file reaches audio.play_sd_card_file(file)
CallsPlaySdCardFile ==
    /\ SelectSdFile
    /\ ~(SelectedSdFile.is_dir /\ ~SelectedSdFile.is_special)
    /\ ~(SelectedSdFile.is_special /\ SelectedSdFile.name = BACK)

\* the steps in which the coordinator's part is one producer-side call:
\* stop (Source), play_station (ControlStation), toggle_pause
\* (ControlPause), play_file and play_sd_card_file
ProducerCall ==
    \/ Source
    \/ \E step \in {1, -1} : ControlStation(step)
    \/ ControlPause
    \/ CallsPlayFile
    \/ CallsPlaySdCardFile

\* C2: a producer-side coordinator call only appends one command to the
\* queue: when it returns, source, current_station, current_file,
\* current_sd_file, the media list and the engine's playing state are what
\* they were before the call.
C2_ProducerOnlyEnqueues ==
    [][ProducerCall =>
          /\ PlaybackState(audio') = PlaybackState(audio)
          /\ Len(audio'.command_queue) = Len(audio.command_queue) + 1]_vars

\* the coordinator variables C3 names
SharedCoordinatorState(a) ==
    <<a.source, a.current_station, a.current_file, a.current_sd_file,
      a.files, a.sd_card_files, a.media_list>>

\* C3: the command queue is the only state the input thread shares with
\* the main tick: a step of the input thread writes no variable of the UI
\* state (mode, standby, current_source, selected_file_idx) and none of the
\* coordinator's source, current_* fields, listings and media list.
C3_InputThreadWritesQueueOnly ==
    [][InputThread =>
          /\ ui' = ui
          /\ SharedCoordinatorState(audio') = SharedCoordinatorState(audio)]_vars

\* C4: commands are handed to their handlers once each and in the order in
\* which they were enqueued: the command applied is always the one enqueued
\* next after the command applied before it (serial number 1, counted from
\* that command; 0 while none has been applied), and the commands waiting
\* are exactly those enqueued since, in the order of their enqueuing.
C4_AppliedOnceInOrder ==
    /\ audio.applied_seq \in {0, 1}
    /\ audio.put_seq = Len(audio.command_queue) + 1
    /\ \A i \in 1..Len(audio.command_queue) : audio.command_queue[i].seq = i

\* process_commands is draining: one command has been applied, two commands
\* of different type, enqueued meanwhile, are waiting
C4_Witness ==
    /\ mainpc = "commands"
    /\ audio.applied_seq = 1
    /\ Len(audio.command_queue) = 2
    /\ audio.command_queue[1].command_type # audio.command_queue[2].command_type

\* from some point on no command is enqueued
FinitelyManyPuts ==
    <>[][Len(audio'.command_queue) <= Len(audio.command_queue)]_vars

\* the main thread keeps running: it takes a step again and again
MainThreadRuns == []<><<MainThread>>_vars

\* C5: process_commands never waits for a command.  On an empty queue it
\* can return at once; it returns only on an empty queue, and the step that
\* finds the queue empty applies nothing; when only finitely many commands
\* are enqueued, a running main thread returns from it, with the queue
\* empty.
C5_DrainNeverWaits ==
    /\ [](mainpc = "commands" /\ audio.command_queue = <<>> => ENABLED ProcessEmpty)
    /\ [][mainpc = "commands" /\ mainpc' # "commands" =>
             audio.command_queue = <<>> /\ audio' = audio]_vars
    /\ (MainThreadRuns /\ FinitelyManyPuts =>
          (mainpc = "commands" ~> (mainpc = "render" /\ audio.command_queue = <<>>)))

\* process_commands has returned after applying a command
C5_Witness ==
    /\ mainpc = "render"
    /\ audio.applied_seq = 1
    /\ audio.command_queue = <<>>
    /\ audio.player_state = "playing"

----------------------------------------------------------------------------
(* Properties of the playlist builders and of the directory index          *)

\* what a failed play is to leave alone
PreviousPlayback(a) ==
    <<a.media_list, a.source, a.current_station, a.current_file, a.current_sd_file>>

\* play_file / play_sd_card_file whose playlist build returned False: the
\* call ends by enqueuing PLAY_FILE
PlayFails ==
    /\ PlayFile \/ PlaySdCardFile
    /\ Len(audio'.command_queue) > Len(audio.command_queue)

\* the drain applies the PLAY_FILE command of a failed play
DrainsFailedPlay ==
    /\ ProcessCommand
    /\ Head(audio.command_queue).command_type = "PLAY_FILE"

\* C6: when playing an entry fails because no playable entry exists, the
\* media list, the source and the current_station / current_file /
\* current_sd_file fields are after play_file / play_sd_card_file, and
\* after the drain of the command it enqueued, what they were before.
C6_FailedPlayKeepsState ==
    [][(PlayFails \/ (DrainsFailedPlay /\ audio'.player_state # "playing")) =>
          (PreviousPlayback(audio') = PreviousPlayback(audio))]_vars

PlainFile(f) == ~f.is_dir /\ ~f.is_special

\* the paths of the playable entries of `listing`, in listing order with
\* wrap-around, from the first occurrence of `file`, or from the first
\* playable entry when `file` is not among them
RotationFrom(listing, file) ==
    LET playable == Playable(listing)
        n == Len(playable)
        at == {i \in 1..n : playable[i] = file}
        k == IF at = {} THEN 0 ELSE (CHOOSE i \in at : \A j \in at : i <= j) - 1
    IN  [i \in 1..n |-> playable[((k + i - 1) % n) + 1].path]

\* C7: for a start entry that is a plain file, the playlist built from a
\* listing is the listing's playable entries rotated to start at the start
\* entry, or at index 0 when the start entry is not in the listing: every
\* playable entry once, in listing order with wrap-around, nothing else.
C7_PlaylistIsRotation ==
    [][/\ (\E file \in {audio'.current_file} \cap HeldEntries :
                PlainFile(file) /\ PlayFileOf(file)) =>
             (audio'.media_list = RotationFrom(audio.files, audio'.current_file))
       /\ (\E file \in {audio'.current_sd_file} \cap HeldEntries :
                PlainFile(file) /\ PlaySdCardFileOf(file)) =>
             (audio'.media_list
                = RotationFrom(audio.sd_card_files, audio'.current_sd_file))
       /\ (DrainsFailedPlay /\ PlainFile(Head(audio.command_queue).data)) =>
             (audio'.media_list
                = RotationFrom(audio.files, Head(audio.command_queue).data))
      ]_vars

\* /mnt/musik of TreeMixed played from its last file a.mp3: the playlist
\* wraps around to .c.mp3 and C.MP3
C7_Witness ==
    /\ audio.source = "SD_CARD"
    /\ audio.player_state = "playing"
    /\ audio.current_sd_file # None
    /\ audio.current_sd_file.path = Join(sd_card_mount_point, N_a_mp3)
    /\ audio.media_list = <<Join(sd_card_mount_point, N_a_mp3),
                            Join(sd_card_mount_point, N_dot_c_mp3),
                            Join(sd_card_mount_point, N_C_MP3)>>

\* `path` is `directory` or lies below it
IsUnder(path, directory) ==
    /\ Len(path) >= Len(directory)
    /\ SubSeq(path, 1, Len(directory)) = directory

\* the media list holds no file of `listing` from outside `directory`
NoFileOf(a, listing, directory) ==
    \A i \in 1..Len(listing) :
        (PlainFile(listing[i]) /\ ~IsUnder(listing[i].path, directory)) =>
            \A j \in 1..Len(a.media_list) : a.media_list[j] # listing[i].path

\* C8: playing an entry of a storage class switches the source to that
\* storage class and builds the playlist from that storage's listing only:
\* after play_sd_card_file and after the drain of the command it enqueued
\* the source is SD_CARD and the media list holds no file of the USB
\* listing; symmetrically for play_file and USB.
C8_PlayStaysOnItsStorage ==
    [][/\ (PlaySdCardFile \/ (DrainsFailedPlay
                                /\ Head(audio.command_queue).by = "play_sd_card_file")) =>
             (/\ audio'.source = "SD_CARD"
              /\ NoFileOf(audio', audio'.files, audio'.sd_card_dir))
       /\ (PlayFile \/ (DrainsFailedPlay
                          /\ Head(audio.command_queue).by = "play_file")) =>
             (/\ audio'.source = "USB"
              /\ NoFileOf(audio', audio'.sd_card_files, audio'.current_dir))
      ]_vars

IsThisFolder(f) == f.is_special /\ f.name = THIS_DIR

\* C9: a ThisFolder playlist never holds more than the cap of 30 entries,
\* and the recursive finder never returns more than max_files entries.
C9_RecursivePlaylistCapped ==
    /\ [][/\ (PlayFile /\ IsThisFolder(audio'.current_file)) =>
                 (Len(audio'.media_list) <= 30)
          /\ (PlaySdCardFile /\ IsThisFolder(audio'.current_sd_file)) =>
                 (Len(audio'.media_list) <= 30)
          /\ (DrainsFailedPlay /\ IsThisFolder(Head(audio.command_queue).data)) =>
                 (Len(audio'.media_list) <= 30)
         ]_vars
    /\ [](probe.op = "find_audio_files_recursively" =>
              Len(probe.result) <= probe.max_files)

HasBack(listing, back_name) ==
    \E i \in 1..Len(listing) : listing[i].is_special /\ listing[i].name = back_name

\* ThisFolder first, Back exactly outside the root
ListingOf(listing, directory, root_path, back_name) ==
    /\ Len(listing) > 0
    /\ IsThisFolder(listing[1])
    /\ (HasBack(listing, back_name) <=> (directory # root_path))

\* os.path.exists(directory) holds and os.listdir(directory) succeeds
Listable(directory) == Exists(directory) /\ tree[directory].readable

\* C10 (as amended): for every directory that exists and can be listed,
\* scan returns a non-empty list whose first element is ThisFolder and which
\* contains a Back entry exactly when the directory differs from the root
\* of that storage.
C10_ScanOfListableDirectory ==
    /\ (probe.op = "scan_directory" /\ Listable(probe.directory)) =>
          ListingOf(probe.result, probe.directory, probe.root_path, FS_BACK)
    /\ Listable(audio.current_dir) =>
          ListingOf(audio.files, audio.current_dir, ROOT, BACK)
    /\ Listable(audio.sd_card_dir) =>
          ListingOf(audio.sd_card_files, audio.sd_card_dir, sd_card_mount_point, BACK)

\* C10 (as stated): for every directory, scan returns a non-empty list whose
\* first element is ThisFolder and which contains a Back entry exactly when
\* the directory differs from the root of that storage.
C10_ScanOfEveryDirectory ==
    /\ probe.op = "scan_directory" =>
          ListingOf(probe.result, probe.directory, probe.root_path, FS_BACK)
    /\ ListingOf(audio.files, audio.current_dir, ROOT, BACK)
    /\ ListingOf(audio.sd_card_files, audio.sd_card_dir, sd_card_mount_point, BACK)

\* the USB listing of /mnt/musik of TreeMixed (ThisFolder, Back, e, x and
\* three files) while the SD listing is that of its root, without Back
C10_Witness ==
    /\ audio.current_dir = <<N_mnt, N_musik>>
    /\ Len(audio.files) = 7
    /\ HasBack(audio.files, BACK)
    /\ audio.sd_card_dir = sd_card_mount_point
    /\ Len(audio.sd_card_files) = 6
    /\ ~HasBack(audio.sd_card_files, BACK)

----------------------------------------------------------------------------
(* A scan step by step.  scan_directory and scan_sd_card_directory assign  *)
(* an empty list to the listing and then append the entries one by one;    *)
(* the thread that navigates runs them while the main thread runs its      *)
(* loop.  probe holds the scan in progress: the storage and the entries    *)
(* still to be appended.                                                   *)

Scanning(storage, rest) == [op |-> "scanning", storage |-> storage, rest |-> rest]

\* scan_directory(directory): self.current_dir = directory; self.files = []
ScanDirectoryClear ==
    /\ probe = NoProbe
    /\ \E directory \in ProbeDirs :
           /\ audio' = [RetireRefs(audio, "usb") EXCEPT
                            !.current_dir = directory, !.files = <<>>]
           /\ probe' = Scanning("usb", scan_directory(audio, directory).files)
    /\ UNCHANGED <<tree, ui, hw, mainpc, settings, now, last_time>>

\* scan_sd_card_directory(directory): self.sd_card_dir = directory;
\* self.sd_card_files = []
ScanSdCardDirectoryClear ==
    /\ probe = NoProbe
    /\ \E directory \in ProbeDirs :
           /\ audio' = [RetireRefs(audio, "sd") EXCEPT
                            !.sd_card_dir = directory, !.sd_card_files = <<>>]
           /\ probe' = Scanning("sd", scan_sd_card_directory(audio, directory).sd_card_files)
    /\ UNCHANGED <<tree, ui, hw, mainpc, settings, now, last_time>>

\* self.files.append(...) / self.sd_card_files.append(...); the scan
\* returns after its last append
ScanAppend ==
    /\ probe.op = "scanning"
    /\ audio' = IF probe.storage = "usb"
                THEN [audio EXCEPT !.files = Append(@, Head(probe.rest))]
                ELSE [audio EXCEPT !.sd_card_files = Append(@, Head(probe.rest))]
    /\ probe' = IF Tail(probe.rest) = <<>> THEN NoProbe
                ELSE Scanning(probe.storage, Tail(probe.rest))
    /\ UNCHANGED <<tree, ui, hw, mainpc, settings, now, last_time>>

InitScan ==
    /\ tree \in IndexTrees
    /\ audio = AudioManagerInit
    /\ ui = UIStateInit
    /\ hw = HardwareInit
    /\ settings = SettingsInit
    /\ now = 0
    /\ last_time = 0
    /\ mainpc = "loop"
    /\ probe = NoProbe

NextScan ==
    \/ ScanDirectoryClear
    \/ ScanSdCardDirectoryClear
    \/ ScanAppend
    \/ MainNoTimer
    \/ ProcessEmpty
    \/ Render

SpecScan == InitScan /\ [][NextScan]_vars

\* C11: the USB listing and the SD-card listing are never observed empty:
\* in every state, also while a scan is in progress in the other thread,
\* each listing holds at least one entry.
C11_ListingsNeverEmpty ==
    /\ Len(audio.files) > 0
    /\ Len(audio.sd_card_files) > 0

\* a special entry that is neither ThisFolder nor Back
ErrorEntry(f) == f.is_special /\ f.name # THIS_DIR /\ f.name # BACK

\* the listing of a path that does not exist: one entry, special, named
\* after the failure
MissingListing(listing, directory, name) ==
    /\ Len(listing) = 1
    /\ ErrorEntry(listing[1])
    /\ listing[1].name = name
    /\ listing[1].path = directory

\* C12: scanning a path that does not exist yields a listing with exactly
\* one entry, which is special and names the failure; selecting that entry
\* in the file browser changes nothing: UI mode, cursor, source, current_*
\* fields, media list, engine state and command queue are what they were.
C12_SelectingErrorEntryIsNoOp ==
    /\ [](/\ ~Exists(audio.current_dir) =>
                MissingListing(audio.files, audio.current_dir, NAME_NOT_FOUND)
          /\ ~Exists(audio.sd_card_dir) =>
                MissingListing(audio.sd_card_files, audio.sd_card_dir, NAME_NOT_MOUNTED))
    /\ [][((SelectFile /\ ~Exists(audio.current_dir))
            \/ (SelectSdFile /\ ~Exists(audio.sd_card_dir))) =>
              (ui' = ui /\ audio' = audio)]_vars

IsSubdirectory(f) == f.is_dir /\ ~f.is_special

\* subdirectories before audio files, each group in case-insensitive order
\* of the names
OrderedListing(listing) ==
    \A i, j \in 1..Len(listing) :
        i < j =>
            /\ ~(PlainFile(listing[i]) /\ IsSubdirectory(listing[j]))
            /\ ((IsSubdirectory(listing[i]) /\ IsSubdirectory(listing[j]))
                  \/ (PlainFile(listing[i]) /\ PlainFile(listing[j]))) =>
                   ~StrLess(Lower(listing[j].name), Lower(listing[i].name))

\* C13: within one scan result all subdirectories precede all audio files,
\* and within each of the two groups the entries are ordered by name
\* case-insensitively.
C13_ListingOrdered ==
    /\ probe.op = "scan_directory" => OrderedListing(probe.result)
    /\ OrderedListing(audio.files)
    /\ OrderedListing(audio.sd_card_files)

\* C14: no entry whose name starts with '.' appears in a scan result,
\* whether subdirectory or audio file, and no such file is returned by the
\* recursive finder.
C14_NoHiddenEntries ==
    /\ probe.op = "scan_directory" =>
          \A i \in 1..Len(probe.result) :
              ~probe.result[i].is_special => ~StartsWithDot(probe.result[i].name)
    /\ \A i \in 1..Len(audio.files) :
          ~audio.files[i].is_special => ~StartsWithDot(audio.files[i].name)
    /\ \A i \in 1..Len(audio.sd_card_files) :
          ~audio.sd_card_files[i].is_special => ~StartsWithDot(audio.sd_card_files[i].name)
    /\ probe.op = "find_audio_files_recursively" =>
          \A i \in 1..Len(probe.result) : ~StartsWithDot(Basename(probe.result[i].path))

\* the UI state after n Source presses
RECURSIVE SourcePressed(_, _)
SourcePressed(u, n) == IF n = 0 THEN u ELSE SourcePressed(next_source(u), n - 1)

\* the mode a Source press is to leave the UI in
ModeOfSource(name) ==
    CASE name = "USB" -> "FILE_BROWSER"
      [] name = "SD_CARD" -> "SD_CARD_BROWSER"
      [] OTHER -> "NORMAL"

\* C15: a Source press outside standby advances the source index to
\* (index + 1) modulo the number of sources, enqueues a Stop command and
\* sets the mode to the file browser of the new source when that source is
\* USB or SD card and to Normal otherwise; as many presses as there are
\* sources return to the original source.
C15_SourceCycles ==
    /\ [][Source =>
             /\ ~ui.standby
             /\ ui'.current_source = (ui.current_source + 1) % Len(sources)
             /\ ui'.mode = ModeOfSource(sources[ui'.current_source + 1])
             /\ ui'.standby = ui.standby
             /\ Len(audio'.command_queue) = Len(audio.command_queue) + 1
             /\ audio'.command_queue[Len(audio'.command_queue)].command_type = "STOP"
             /\ SubSeq(audio'.command_queue, 1, Len(audio.command_queue))
                   = audio.command_queue
             /\ PlaybackState(audio') = PlaybackState(audio)]_vars
    /\ [](SourcePressed(ui, Len(sources)).current_source = ui.current_source)

\* the fifth Source press has brought the source back to RADIO, its Stop
\* command is waiting
C15_Witness ==
    /\ mainpc = "loop"
    /\ ui.current_source = 0
    /\ ui.mode = "NORMAL"
    /\ audio.source = "SD_CARD"
    /\ Len(audio.command_queue) = 1
    /\ audio.command_queue[1].command_type = "STOP"

\* the commands a step has appended to the queue
Enqueued(a, b) ==
    {b.command_queue[i].command_type :
        i \in (Len(a.command_queue) + 1)..Len(b.command_queue)}

\* C16: every Source press that makes Bluetooth the new source enqueues an
\* UnmuteBluetooth command, and every Source press that leaves Bluetooth
\* enqueues a MuteBluetooth command.
C16_SourceArmsBluetoothMute ==
    [][Source =>
          /\ (get_current_source(ui') = "BLUETOOTH" =>
                 "UNMUTE_BLUETOOTH" \in Enqueued(audio, audio'))
          /\ (get_current_source(ui) = "BLUETOOTH" =>
                 "MUTE_BLUETOOTH" \in Enqueued(audio, audio'))]_vars

\* C17: each Power press inverts the standby flag; a press that enters
\* standby commands the coordinator to stop (a Stop command is enqueued),
\* and a press that leaves standby re-issues the switch to the current
\* source (for the streaming source INTERNET, its station is played again).
C17_PowerStopsAndResumes ==
    [][Power =>
          /\ ui'.standby = ~ui.standby
          /\ (ui'.standby => "STOP" \in Enqueued(audio, audio'))
          /\ ((~ui'.standby /\ get_current_source(ui) = "INTERNET") =>
                 "PLAY_STATION" \in Enqueued(audio, audio'))]_vars

\* a press of the menu button while the UI mode is Menu
MenuPressInMenu == Menu /\ ui.mode = "MENU"

\* C18: inside Menu a press of the menu button moves to the next settings
\* field and stays in Menu, and from the last of the 8 fields it exits to
\* Normal and writes the settings file once; so of 8 presses starting at
\* field 0 only the 8th leaves Menu and writes.
C18_MenuPressAdvancesThenSaves ==
    [][MenuPressInMenu =>
          IF at_last_item(settings)
          THEN /\ ui'.mode = "NORMAL"
               /\ settings'.writes = settings.writes + 1
          ELSE /\ ui'.mode = "MENU"
               /\ settings' = next_item(settings)]_vars

\* C19: a long press of the menu button in Menu exits Menu and writes the
\* settings file, whatever field is selected.  process_button reports a
\* press when the button goes down and nothing about its length or release,
\* so a long press is one menu press.
C19_LongPressExitsAndSaves ==
    [][MenuPressInMenu =>
          \A field \in 0..(Len(settings.items) - 1) :
              (settings.current_item = field) =>
                  (ui'.mode = "NORMAL" /\ settings' = save_settings(settings))]_vars

\* the selected settings field
SelectedItem(s) == s.items[s.current_item + 1]

\* a control-encoder step (1 clockwise, -1 counter-clockwise) taken by the
\* handler of the current source
ControlStep(step) ==
    \/ ControlStation(step)
    \/ SelectNextPrevFile(step)
    \/ SelectNextPrevSdFile(step)

\* C20: while the UI mode is Menu a control-encoder step increases
\* (clockwise) or decreases (counter-clockwise) the value of the selected
\* settings field and changes nothing else: the file-browser cursor and the
\* command queue stay as they are.
C20_ControlStepEditsField ==
    [][\A step \in {1, -1} :
          (ui.mode = "MENU" /\ ControlStep(step)) =>
              /\ SelectedItem(settings') =
                     IF step = 1 THEN increase(SelectedItem(settings))
                                 ELSE decrease(SelectedItem(settings))
              /\ ui' = ui
              /\ audio' = audio]_vars

\* the cursor of the file browser: the index render_file_browser and
\* render_sd_card_browser mark with ">"
Cursor(u) == u.selected_file_idx

\* C21: in the file browser a control-encoder step moves the selection
\* cursor from index i of a listing of n entries to (i + 1) mod n
\* (clockwise) or (i - 1) mod n (counter-clockwise), for the browser of
\* either storage; n clockwise steps and a step followed by its opposite
\* then return the cursor to where it started.
C21_CursorStepsByOne ==
    [][\A step \in {1, -1} :
          /\ (/\ ui.mode = "FILE_BROWSER"
              /\ Cursor(ui) < Len(audio.files)
              /\ SelectNextPrevFile(step))
                 => (Cursor(ui') = (Cursor(ui) + step) % Len(audio.files))
          /\ (/\ ui.mode = "SD_CARD_BROWSER"
              /\ Cursor(ui) < Len(audio.sd_card_files)
              /\ SelectNextPrevSdFile(step))
                 => (Cursor(ui') = (Cursor(ui) + step) % Len(audio.sd_card_files))]_vars

RECURSIVE StationAfter(_, _)
\* the current station once the commands of a queue have been applied to a
\* coordinator whose current station is station
StationAfter(station, queue) ==
    IF queue = << >> THEN station
    ELSE LET command == Head(queue)
         IN  StationAfter(
                 CASE command.command_type = "PLAY_STATION" -> command.data
                   [] command.command_type \in {"PLAY_FILE", "PLAY_SD_CARD_FILE"} -> None
                   [] OTHER -> station,
                 Tail(queue))

\* the current station once all commands are drained
DrainedStation(a) == StationAfter(a.current_station, a.command_queue)

\* C22: with the internet-radio source active, each clockwise step advances
\* and each counter-clockwise step retreats by one position modulo the
\* number of stations the station that is current once all commands are
\* drained, whether or not the earlier steps have been drained; so k steps
\* move the station by k positions however they interleave with the drains.
C22_StationStepsAddUp ==
    [][\A step \in {1, -1} :
          (ControlStation(step) /\ DrainedStation(audio) # None) =>
              (Index(stations, DrainedStation(audio')) =
                  (Index(stations, DrainedStation(audio)) + step) % Len(stations))]_vars

\* C23: a Select in the file browser of either storage never changes the
\* UI mode: after selecting a file, a directory, Back or ThisFolder the
\* mode is what it was, the file browser of the current storage.
C23_SelectKeepsMode ==
    [][(SelectFile \/ SelectSdFile) => (ui'.mode = ui.mode)]_vars

\* a Select has played a file of the USB listing and the USB browser is
\* still shown
C23_Witness ==
    /\ ui.mode = "FILE_BROWSER"
    /\ audio.source = "USB"
    /\ audio.player_state = "playing"
    /\ audio.current_file # None
    /\ ~audio.current_file.is_special
    /\ ~audio.current_file.is_dir

IsBack(f) == f.is_special /\ f.name = BACK

\* the directory a Select on entry f leads to from directory
Entered(f, directory) == IF IsBack(f) THEN Parent(directory) ELSE f.path

\* the cursor is on entry 0: entry 0 is drawn as selected and is the entry
\* the next Select and the next control-encoder step start from
CursorAtFirst(u, files, current) ==
    /\ Len(files) > 0
    /\ Cursor(u) = 0
    /\ SelectIdx(u, files, current) = 0
    /\ CurrentIdx(u, files, current) = 0

\* C24: after a Select on a directory or on Back the listing is that of the
\* entered directory (of the parent for Back) and the cursor is on entry 0
\* of the new listing, both as drawn and as the entry the next Select or
\* control-encoder step acts on; for the browser of either storage.
C24_EnteringResetsCursor ==
    [][/\ ((SelectFile /\ (IsSubdirectory(SelectedFile) \/ IsBack(SelectedFile))) =>
              (/\ audio'.current_dir = Entered(SelectedFile, audio.current_dir)
               /\ audio'.files = scan_directory(audio, audio'.current_dir).files
               /\ CursorAtFirst(ui', audio'.files, audio'.current_file)))
       /\ ((SelectSdFile /\ (IsSubdirectory(SelectedSdFile) \/ IsBack(SelectedSdFile))) =>
              (/\ audio'.sd_card_dir = Entered(SelectedSdFile, audio.sd_card_dir)
               /\ audio'.sd_card_files =
                      scan_sd_card_directory(audio, audio'.sd_card_dir).sd_card_files
               /\ CursorAtFirst(ui', audio'.sd_card_files, audio'.current_sd_file)))]_vars

----------------------------------------------------------------------------
(* The volume encoder and the volume overlay against the clock: SpecVolume *)
(* runs the volume branch of handle_button, the Power and Menu presses and *)
(* the main loop with an empty queue while time passes, for every state    *)
(* the mixer can be in at start-up.                                        *)

\* UI.__init__: VOLUME_OVERLAY_DURATION = 2.0
VOLUME_OVERLAY_DURATION == 2

\* the step handle_button passes to volume_up / volume_down
VOLUME_STEP == 2

\* Bound of the model: the clock stops after MaxTime seconds
MaxTime == 4

\* the states of the mixer when VolumeControl is constructed
MixerStates == {None} \cup {Mixer(hw_vol) : hw_vol \in 0..100}

\* what probe keeps of a call of handle_button for the volume encoder: the
\* time of the call and the deadline it found
VolumeCall(step) ==
    [op |-> "handle_button", button |-> IF step = 1 THEN "volume_cw" ELSE "volume_ccw",
     current_time |-> now, volume_overlay_timeout |-> ui.volume_overlay_timeout]

\* a volume event that adds the overlay duration to a deadline that has not
\* passed yet
VolumeStepStacks(step) ==
    /\ InputRunning
    /\ LET r == IF step = 1 THEN volume_up(hw.mixer, VOLUME_STEP)
                            ELSE volume_down(hw.mixer, VOLUME_STEP)
       IN  /\ hw' = [hw EXCEPT !.mixer = r.mixer]
           /\ ui' = [ui EXCEPT !.volume = r.volume,
                               !.volume_overlay_timeout =
                                   Max(now, @) + VOLUME_OVERLAY_DURATION]
    /\ probe' = VolumeCall(step)
    /\ UNCHANGED <<tree, audio, mainpc, settings, now, last_time>>

\* handle_button("volume_cw", True) (step = 1) and
\* handle_button("volume_ccw", True) (step = -1)
VolumeStep(step) ==
    /\ InputRunning
    /\ LET r == IF step = 1 THEN volume_up(hw.mixer, VOLUME_STEP)
                            ELSE volume_down(hw.mixer, VOLUME_STEP)
       IN  /\ hw' = [hw EXCEPT !.mixer = r.mixer]
           /\ ui' = [ui EXCEPT !.volume = r.volume,
                               !.volume_overlay_timeout = now + VOLUME_OVERLAY_DURATION]
    /\ probe' = VolumeCall(step)
    /\ UNCHANGED <<tree, audio, mainpc, settings, now, last_time>>

\* a second passes
Tick ==
    /\ now < MaxTime
    /\ now' = now + 1
    /\ UNCHANGED <<tree, audio, ui, hw, mainpc, probe, settings, last_time>>

\* the screen render() draws: the standby screen, the volume overlay while
\* time.time() < volume_overlay_timeout, else the screen of the mode
Screen(u, current_time) ==
    IF u.standby THEN "STANDBY"
    ELSE IF current_time < u.volume_overlay_timeout THEN "VOLUME_OVERLAY"
    ELSE u.mode

\* ui.render() with the overlay decided by the clock; probe keeps the
\* screen that was chosen.  render_normal asks get_bluetooth_info() for the
\* device when the source is BLUETOOTH.
RenderByClock ==
    /\ mainpc = "render"
    /\ audio' = IF Screen(ui, now) = "NORMAL" /\ get_current_source(ui) = "BLUETOOTH"
                THEN get_bluetooth_info(audio, FALSE)
                ELSE audio
    /\ IF RenderRaises(now < ui.volume_overlay_timeout)
       THEN /\ mainpc' = "cleanup"
            /\ ui' = IF ui.mode # "MENU" /\ ui.selected_file_idx >= Len(BrowserFiles)
                     THEN [ui EXCEPT !.selected_file_idx = 0]
                     ELSE ui
       ELSE /\ mainpc' = "loop"
            /\ ui' = ui
    /\ probe' = [op |-> "render", screen |-> Screen(ui, now), current_time |-> now]
    /\ UNCHANGED <<tree, hw, settings, now, last_time>>

InitVolume ==
    /\ tree = TreeUnmounted
    /\ audio = AudioManagerInit
    /\ hw \in {[HardwareInit EXCEPT !.mixer = mixer] : mixer \in MixerStates}
    /\ ui = [UIStateInit EXCEPT !.volume = get_volume(hw.mixer)]
    /\ settings = SettingsInit
    /\ now = 0
    /\ last_time = 0
    /\ mainpc = "loop"
    /\ probe = NoProbe

NextVolume ==
    \/ \E step \in {1, -1} : VolumeStep(step)
    \/ Tick
    \/ Power
    \/ Menu
    \/ MainNoTimer
    \/ ProcessEmpty
    \/ RenderByClock
    \/ Cleanup

SpecVolume == InitVolume /\ [][NextVolume]_vars

----------------------------------------------------------------------------
(* The Bluetooth refresh against the clock: SpecBluetooth runs the main    *)
(* loop with its one-second timer, the Source presses that lead to the     *)
(* BLUETOOTH source and the mute / unmute calls while time passes.         *)

\* main_loop: a second or more has passed since last_time: check_alarms()
\* and update_status(), which forces a refresh when the source is BLUETOOTH
MainTimerByClock ==
    /\ mainpc = "loop"
    /\ now - last_time >= 1
    /\ \E alarm \in AlarmValues :
         LET fire == alarm > 0 /\ ~is_playing(audio)
             a == IF fire /\ Len(stations) > 0 THEN play_station(audio, stations[1]) ELSE audio
         IN  /\ QueueFits(a)
             /\ ui' = [ui EXCEPT !.standby = IF fire THEN FALSE ELSE @]
             /\ audio' = IF get_current_source(ui') = "BLUETOOTH"
                         THEN get_bluetooth_info(a, TRUE)
                         ELSE a
    /\ mainpc' = "commands"
    /\ last_time' = now
    /\ UNCHANGED <<tree, hw, probe, settings, now>>

\* main_loop: less than a second has passed since last_time
MainNoTimerByClock ==
    /\ mainpc = "loop"
    /\ now - last_time < 1
    /\ mainpc' = "commands"
    /\ UNCHANGED <<tree, audio, ui, hw, probe, settings, now, last_time>>

InitBluetooth ==
    /\ tree = TreeUnmounted
    /\ audio = AudioManagerInit
    /\ ui = UIStateInit
    /\ hw = HardwareInit
    /\ settings = SettingsInit
    /\ now = 0
    /\ last_time = 0
    /\ mainpc = "loop"
    /\ probe = NoProbe

NextBluetooth ==
    \/ Tick
    \/ Source
    \/ MuteBluetooth
    \/ UnmuteBluetooth
    \/ MainTimerByClock
    \/ MainNoTimerByClock
    \/ ProcessCommand
    \/ ProcessEmpty
    \/ RenderByClock
    \/ Cleanup

SpecBluetooth == InitBluetooth /\ [][NextBluetooth]_vars

\* C25: every volume-encoder step changes the reported volume by the fixed
\* step of 2, to min(100, v + 2) clockwise and max(0, v - 2)
\* counter-clockwise from the reported volume v, keeps it within 0..100,
\* and sets the overlay deadline to the time of the step plus the overlay
\* duration.
C25_VolumeStepsByTwo ==
    [][\A step \in {1, -1} :
          VolumeStep(step) =>
              /\ ui'.volume = IF step = 1 THEN Min(100, ui.volume + 2)
                                          ELSE Max(0, ui.volume - 2)
              /\ ui'.volume \in 0..100
              /\ ui'.volume_overlay_timeout = now + 2]_vars

\* the volume overlay is showing
OverlayShowing == now < ui.volume_overlay_timeout

EngineState(a) == <<a.player_state, a.player_media, a.media_list>>

\* C27 as stated: two TogglePause applications with no other event in
\* between return the engine to the state it was in, for every engine
\* state, playing, paused and stopped.
C27_ToggleTwiceEveryState ==
    EngineState(_toggle_pause(_toggle_pause(audio))) = EngineState(audio)

\* C27: two TogglePause applications with no other event in between return
\* the engine to the state it was in when it was playing or paused, and
\* when it was stopped with no medium loaded.
C27_ToggleTwicePlayingOrPaused ==
    (audio.player_state \in {"playing", "paused"} \/ audio.player_media = "none") =>
        (EngineState(_toggle_pause(_toggle_pause(audio))) = EngineState(audio))

\* a TogglePause command has been applied: the engine is paused
C27_Witness ==
    /\ audio.player_state = "paused"
    /\ audio.applied_seq > 0
    /\ _toggle_pause(audio).player_state = "playing"

\* C28: the external Bluetooth query runs at most once per 2-second
\* interval: between two successive runs at least 2 seconds pass, whatever
\* the status updates, renders and mute / unmute commands.
C28_BluetoothRefreshRateLimited ==
    (Len(audio.bt_queries) = 2) =>
        (audio.bt_queries[2] - audio.bt_queries[1] >= 2)

----------------------------------------------------------------------------
(* load_stations (audio.py) on its own.  A stations.csv is absent or is    *)
(* the rows csv.reader yields for it: a row is the list of its fields, the *)
(* empty list for a blank line; a field is its text as character codes.    *)

F_A == <<65>>                 \* "A"
F_sp_B == <<32, 66>>          \* " B"
F_u == <<117>>                \* "u"
F_v_sp == <<118, 32>>         \* "v "
F_comment == <<35, 99>>       \* "#c"

RECURSIVE LStrip(_)
LStrip(text) == IF text # <<>> /\ Head(text) = 32 THEN LStrip(Tail(text)) ELSE text

\* str.strip() for blanks
Strip(text) == Reverse(LStrip(Reverse(LStrip(text))))

\* the rows of the files: a blank line, a comment, two name,url lines (one
\* with blanks around its fields) and a line with an empty name
CsvRows == { <<>>, <<F_comment>>, <<F_A, F_u>>, <<F_sp_B, F_v_sp>>, <<<<>>, F_u>> }

\* Bound of the model: a stations.csv has at most MaxRows rows
MaxRows == 3

NoFile == [exists |-> FALSE]

CsvFile(rows) == [exists |-> TRUE, rows |-> rows]

StationFiles ==
    {NoFile} \cup {CsvFile(rows) : rows \in UNION {[1..n -> CsvRows] : n \in 0..MaxRows}}

AudioStation(name, url) == [name |-> name, url |-> url]

RECURSIVE StationsOf(_)
\* [AudioStation(name.strip(), url.strip()) for name, url in reader
\*  if name and url]
StationsOf(rows) ==
    IF rows = <<>> THEN <<>>
    ELSE LET name == Head(rows)[1]
             url == Head(rows)[2]
         IN  (IF name # <<>> /\ url # <<>>
              THEN <<AudioStation(Strip(name), Strip(url))>>
              ELSE <<>>) \o StationsOf(Tail(rows))

\* the first row that "for name, url in reader" cannot unpack, 0 if none
FirstBadRow(rows) ==
    LET bad == {i \in 1..Len(rows) : Len(rows[i]) # 2}
    IN  IF bad = {} THEN 0 ELSE CHOOSE i \in bad : \A j \in bad : i <= j

\* AudioManager.load_stations: the exception it raised, "none" if it
\* returned, and self.stations after it; only FileNotFoundError is caught
load_stations(file) ==
    IF ~file.exists THEN [raised |-> "none", stations |-> stations]
    ELSE IF FirstBadRow(file.rows) # 0 THEN [raised |-> "ValueError", stations |-> <<>>]
    ELSE [raised |-> "none", stations |-> StationsOf(file.rows)]

\* AudioManager.__init__: self.load_stations();
\* self.current_station = self.stations[0]
LoadAndSelect(file) ==
    LET r == load_stations(file)
    IN  IF r.raised # "none" THEN r
        ELSE IF r.stations = <<>> THEN [r EXCEPT !.raised = "IndexError"]
        ELSE r

LoadStations ==
    /\ \E file \in StationFiles :
           probe' = [op |-> "load_stations", file |-> file, result |-> LoadAndSelect(file)]
    /\ UNCHANGED <<tree, audio, ui, hw, mainpc, settings, now, last_time>>

InitStations ==
    /\ tree = TreeUnmounted
    /\ audio = AudioManagerInit
    /\ ui = UIStateInit
    /\ hw = HardwareInit
    /\ settings = SettingsInit
    /\ now = 0
    /\ last_time = 0
    /\ mainpc = "loop"
    /\ probe = NoProbe

NextStations == LoadStations

SpecStations == InitStations /\ [][NextStations]_vars

\* the rows that are a name,url pair
IsPair(row) == Len(row) = 2 /\ row[1] # <<>> /\ row[2] # <<>>

\* C29: loading the station list never fails and leaves a usable list: the
\* rows that are not a name,url pair (blank lines, comments) are skipped,
\* every name,url row yields one station in file order, a missing file
\* yields the built-in default list, and after construction the list is
\* not empty and station 0 has been selected.
C29_LoadStationsNeverFails ==
    (probe.op = "load_stations") =>
        /\ probe.result.raised = "none"
        /\ Len(probe.result.stations) > 0
        /\ IF probe.file.exists
           THEN probe.result.stations = StationsOf(SelectSeq(probe.file.rows, IsPair))
           ELSE probe.result.stations = stations

----------------------------------------------------------------------------
(* Shutdown: SpecShutdown runs the main loop and the buttons until a       *)
(* signal arrives or render raises, with and without a HardwareInput.      *)

InitShutdown ==
    /\ tree = TreeUnmounted
    /\ audio = AudioManagerInit
    /\ ui = UIStateInit
    /\ hw \in {[HardwareInit EXCEPT !.hardware_in = constructed] : constructed \in BOOLEAN}
    /\ settings = SettingsInit
    /\ now = 0
    /\ last_time = 0
    /\ mainpc = "loop"
    /\ probe = NoProbe

NextShutdown ==
    \/ signal_handler
    \/ Power
    \/ Source
    \/ Menu
    \/ MainTimer
    \/ MainNoTimer
    \/ ProcessCommand
    \/ ProcessEmpty
    \/ Render
    \/ Cleanup

SpecShutdown == InitShutdown /\ [][NextShutdown]_vars

\* C30: every clean shutdown, after the main loop ended or after a signal,
\* has written the settings file during cleanup, also when hardware input
\* failed to initialise (hardware_in is None).
C30_ShutdownSavesSettings ==
    (mainpc = "exited") => (settings.writes >= 1)

\* C31: no reachable state ends the main loop: in every mode, with every
\* source, standby flag, listing and current item, a main tick
\* (process_commands, then render) completes without raising, so the main
\* thread never leaves main_loop for the cleanup.
C31_MainLoopNeverEnds ==
    /\ mainpc \in {"loop", "commands", "render"}
    /\ (mainpc = "render" => \A overlay \in BOOLEAN : ~RenderRaises(overlay))

\* C32: the entry a file browser marks as playing is the entry most recently
\* played from that storage: moving the browser cursor with the control
\* encoder leaves the coordinator's current USB entry and current SD entry
\* unchanged.
C32_CursorMoveKeepsCurrentEntry ==
    [][ /\ ((\E step \in {-1, 1} : SelectNextPrevFile(step))
               => (audio'.current_file = audio.current_file))
        /\ ((\E step \in {-1, 1} : SelectNextPrevSdFile(step))
               => (audio'.current_sd_file = audio.current_sd_file)) ]_vars

\* ---------------------------------------------------------------------
\* The input thread's sampling of the touch buttons. In this
\* specification the clock `now` counts milliseconds.

\* Button.DEBOUNCE_TIME = 0.05 s
DEBOUNCE_TIME == 50

\* time.sleep(0.033) at the end of each input_loop iteration
POLL_SLEEP == 33

\* the clock value at which sampling stops
MaxClock == 300

\* process_button without the test of button.pressed
process_button_repeats(button, state, current_time) ==
    IF state
    THEN IF current_time - button.last_press_time >= DEBOUNCE_TIME
         THEN [button |-> [pressed |-> TRUE, last_press_time |-> current_time],
               callback |-> TRUE]
         ELSE [button |-> button, callback |-> FALSE]
    ELSE IF button.pressed
         THEN [button |-> [button EXCEPT !.pressed = FALSE], callback |-> FALSE]
         ELSE [button |-> button, callback |-> FALSE]

\* process_button: the Button it leaves and whether the callback was called
process_button(button, state, current_time) ==
    IF state /\ ~button.pressed
    THEN IF current_time - button.last_press_time >= DEBOUNCE_TIME
         THEN [button |-> [pressed |-> TRUE, last_press_time |-> current_time],
               callback |-> TRUE]
         ELSE [button |-> button, callback |-> FALSE]
    ELSE IF ~state /\ button.pressed
         THEN [button |-> [button EXCEPT !.pressed = FALSE], callback |-> FALSE]
         ELSE [button |-> button, callback |-> FALSE]

\* check_gpio_buttons: every button's pin is read and processed
check_gpio_buttons(buttons, level, current_time) ==
    [name \in ButtonNames |-> process_button(buttons[name], level[name], current_time)]

\* check_keyboard: process_button is called, with True, for the keys that
\* are down, and not at all for the others
check_keyboard(buttons, level, current_time) ==
    [name \in ButtonNames |->
        IF level[name]
        THEN process_button(buttons[name], TRUE, current_time)
        ELSE [button |-> buttons[name], callback |-> FALSE]]

\* the sleep of one iteration lasts POLL_SLEEP or longer
SleepTimes == {POLL_SLEEP, DEBOUNCE_TIME}

\* one iteration of input_loop: the levels of the pins (or keys) are the
\* input; the probe keeps the levels sampled, the buttons whose callback was
\* called, and the times of all callbacks of each button
input_loop ==
    /\ InputRunning
    /\ \E level \in [ButtonNames -> BOOLEAN], slept \in SleepTimes :
          LET r == IF hw.RPI_HARDWARE
                   THEN check_gpio_buttons(hw.buttons, level, now)
                   ELSE check_keyboard(hw.buttons, level, now)
          IN  /\ now + slept <= MaxClock
              /\ hw' = [hw EXCEPT !.buttons = [name \in ButtonNames |-> r[name].button]]
              /\ probe' = [op |-> "input_loop",
                           level |-> level,
                           callback |-> {name \in ButtonNames : r[name].callback},
                           delivered |-> [name \in ButtonNames |->
                                            IF r[name].callback
                                            THEN Append(probe.delivered[name], now)
                                            ELSE probe.delivered[name]]]
              /\ now' = now + slept
    /\ UNCHANGED <<tree, audio, ui, mainpc, settings, last_time>>

InitDebounce ==
    /\ tree = TreeUnmounted
    /\ audio = AudioManagerInit
    /\ ui = UIStateInit
    /\ hw \in {[HardwareInit EXCEPT !.RPI_HARDWARE = rpi] : rpi \in BOOLEAN}
    /\ settings = SettingsInit
    /\ now = 2 * DEBOUNCE_TIME
    /\ last_time = 0
    /\ mainpc = "loop"
    /\ probe = [op |-> "none",
                level |-> [name \in ButtonNames |-> FALSE],
                callback |-> {},
                delivered |-> [name \in ButtonNames |-> <<>>]]

NextDebounce ==
    \/ input_loop
    \/ MainNoTimer
    \/ ProcessEmpty
    \/ Render
    \/ signal_handler
    \/ Cleanup

SpecDebounce == InitDebounce /\ [][NextDebounce]_vars

\* C33: button debouncing. A press event of a button is delivered only by a
\* sample that finds the button down after it was up (a transition from
\* released to pressed); a button that is held down from one sample to the
\* next delivers no event; two press events of the same button are at least
\* DEBOUNCE_TIME apart; and the buttons' debounce state is changed by no
\* step other than the input thread's sampling.
C33_ButtonDebounce ==
    [][ /\ (input_loop =>
              \A name \in ButtonNames :
                 /\ ((name \in probe'.callback)
                        => /\ probe'.level[name] /\ ~probe.level[name]
                           /\ ~hw.buttons[name].pressed /\ hw'.buttons[name].pressed)
                 /\ ((probe.level[name] /\ probe'.level[name])
                        => (name \notin probe'.callback))
                 /\ \A i \in 1..(Len(probe'.delivered[name]) - 1) :
                       probe'.delivered[name][i + 1] - probe'.delivered[name][i]
                           >= DEBOUNCE_TIME)
        /\ ((hw'.buttons # hw.buttons) => input_loop) ]_vars

\* a button delivered a press event, was released, delivered a second
\* press event, and is now held down without a further event
C33_Witness ==
    \E name \in ButtonNames :
       /\ probe.op = "input_loop"
       /\ Len(probe.delivered[name]) >= 2
       /\ probe.level[name]
       /\ name \notin probe.callback
       /\ hw.buttons[name].pressed

\* the coordinators process_commands can leave once it has applied every
\* command of the queue of a
RECURSIVE Drained(_)
Drained(a) ==
    IF a.command_queue = << >>
    THEN {a}
    ELSE UNION {Drained(r.a) : r \in ApplyCommand(GetNowait(a).a, GetNowait(a).command)}

\* C34: coordinator calls take effect in the order they were issued: when
\* play_file or play_sd_card_file starts a playback while only Stops issued
\* earlier are pending (Source pressed, then Select, before the next main
\* tick), applying those Stops neither stops that playback nor clears its
\* current entry.
C34_EarlierStopSparesLaterPlay ==
    [][ ( /\ CallsPlayFile \/ CallsPlaySdCardFile
          /\ audio'.player_state = "playing"
          /\ audio.command_queue # << >>
          /\ \A i \in 1..Len(audio.command_queue) :
                audio.command_queue[i].command_type = "STOP" )
        => \A d \in Drained(audio') :
              /\ d.player_state = "playing"
              /\ d.current_file = audio'.current_file
              /\ d.current_sd_file = audio'.current_sd_file ]_vars

\* C35: after start-up the amplifier is enabled exactly when the device is
\* not in standby, whatever Power presses and alarm triggers have happened.
C35_AmpFollowsStandby == hw.amp_enabled = ~ui.standby

\* C36: volume changes make progress: with a mixer that stores the integer
\* hardware value it is given, a clockwise step taken at a volume below 100
\* returns a strictly larger volume and a counter-clockwise step taken at a
\* volume above 0 returns a strictly smaller one, so that repeated steps
\* reach 100 and 0.
C36_VolumeStepsMakeProgress ==
    [][ /\ ((VolumeStep(1) /\ hw.mixer # None /\ get_volume(hw.mixer) < 100)
               => (ui'.volume > get_volume(hw.mixer)))
        /\ ((VolumeStep(-1) /\ hw.mixer # None /\ get_volume(hw.mixer) > 0)
               => (ui'.volume < get_volume(hw.mixer))) ]_vars

\* C37: _hardware_to_display is the inverse of _scale_to_hardware: every
\* display volume 0..100 that set_volume has written to the mixer is read
\* back by get_volume as the same value.
C37_DisplayVolumeRoundTrips ==
    [][\A step \in {1, -1} :
          (VolumeStep(step) /\ hw.mixer # None) =>
              LET volume == Max(0, Min(100, get_volume(hw.mixer) + step * VOLUME_STEP))
              IN  _hardware_to_display(_scale_to_hardware(volume)) = volume]_vars

\* C38: mode and source stay consistent: in every reachable state in which
\* the UI is not in the menu, the mode is the USB file browser exactly when
\* the source is USB, the SD-card browser exactly when the source is
\* SD_CARD, and Normal for every other source.
C38_ModeMatchesSource ==
    (ui.mode # "MENU") =>
        /\ (ui.mode = "FILE_BROWSER") <=> (get_current_source(ui) = "USB")
        /\ (ui.mode = "SD_CARD_BROWSER") <=> (get_current_source(ui) = "SD_CARD")
        /\ (ui.mode = "NORMAL") <=> (get_current_source(ui) \notin {"USB", "SD_CARD"})

\* ---------------------------------------------------------------------
\* radio.py, the stand-alone program with on-release button handling. Its
\* RadioWecker object is kept in the variable probe under this
\* specification, with the position of run() in its loop (pc: "alarms"
\* before check_alarms, "events" before the buttons are sampled, "logic"
\* before handle_button_state_logic) and three counters of what has
\* happened: the presses seen, and for each button its completed
\* press-release cycles and the runs of its action. The clock `now` counts
\* seconds. The player, the radio tuner, the USB selection and the station
\* index, which the forward and backward actions change, are left out.

\* the keys of button_states, in the order of the dict
RadioButtons == <<"power", "source", "menu", "forward", "backward">>

RadioButtonNames == {RadioButtons[i] : i \in 1..Len(RadioButtons)}

\* LONG_PRESS_THRESHOLD = 1.0 s
LONG_PRESS_THRESHOLD == 1

\* the number of presses a behaviour holds
MaxPresses == 2

\* len(self.sources) of radio.py
RadioSources == 4

\* RadioWecker.__init__ of radio.py
RadioWeckerInit ==
    [op |-> "radio", pc |-> "alarms", pc_mode |-> TRUE,
     wecker1_active |-> FALSE, wecker2_active |-> FALSE, alarm_mode |-> 0,
     standby |-> FALSE, current_source_idx |-> 0, in_settings_menu |-> FALSE,
     button_states |-> [name \in RadioButtonNames |->
                          [down |-> FALSE, time |-> 0, handled |-> FALSE]],
     presses |-> 0,
     cycles |-> [name \in RadioButtonNames |-> 0],
     runs |-> [name \in RadioButtonNames |-> 0]]

\* toggle_standby
toggle_standby(app) == [app EXCEPT !.standby = ~@]

\* check_alarms: match1 and match2 say whether the wall clock shows the
\* time of alarm 1 and of alarm 2
check_alarms(app, match1, match2) ==
    LET a1 == IF app.wecker1_active /\ match1 /\ app.standby
              THEN toggle_standby(app) ELSE app
    IN  IF a1.wecker2_active /\ match2 /\ a1.standby THEN toggle_standby(a1) ELSE a1

\* cycle_alarm_mode
cycle_alarm_mode(app) ==
    LET mode == (app.alarm_mode + 1) % 4
    IN  [app EXCEPT !.alarm_mode = mode,
                    !.wecker1_active = mode \in {1, 3},
                    !.wecker2_active = mode \in {2, 3}]

\* update_button_state_pi
update_button_state_pi(button_states, sensor_state, current_time) ==
    [name \in RadioButtonNames |->
        LET btn_state == button_states[name]
        IN  IF sensor_state[name] /\ ~btn_state.down
            THEN [down |-> TRUE, time |-> current_time, handled |-> FALSE]
            ELSE IF ~sensor_state[name] /\ btn_state.down
            THEN [btn_state EXCEPT !.down = FALSE]
            ELSE btn_state]

\* update_button_state_pygame, for the key bound to the button name
update_button_state_pygame(button_states, name, pressed, current_time) ==
    [button_states EXCEPT ![name] =
        IF pressed
        THEN IF ~@.down
             THEN [down |-> TRUE, time |-> current_time, handled |-> FALSE]
             ELSE @
        ELSE [@ EXCEPT !.down = FALSE]]

\* handle_power_release, handle_source_release, handle_menu_release,
\* handle_forward_release and handle_backward_release
handle_release(app, btn_name, press_duration) ==
    CASE btn_name = "power" -> toggle_standby(app)
      [] btn_name = "source" ->
            IF app.standby THEN app
            ELSE [app EXCEPT !.current_source_idx = (@ + 1) % RadioSources]
      [] btn_name = "menu" ->
            IF app.standby THEN app
            ELSE IF press_duration >= LONG_PRESS_THRESHOLD
                 THEN [app EXCEPT !.in_settings_menu = ~@]
                 ELSE app
      [] OTHER -> app

\* the loop of handle_button_state_logic over released_buttons, from the
\* i-th key on
RECURSIVE HandleReleased(_, _, _, _)
HandleReleased(app, released_buttons, i, current_time) ==
    IF i > Len(RadioButtons) THEN app
    ELSE LET btn_name == RadioButtons[i]
             btn_state == app.button_states[btn_name]
         IN  IF btn_name \notin released_buttons \/ btn_state.handled
             THEN HandleReleased(app, released_buttons, i + 1, current_time)
             ELSE HandleReleased(
                      handle_release(
                          [app EXCEPT !.button_states[btn_name].handled = TRUE],
                          btn_name, current_time - btn_state.time),
                      released_buttons, i + 1, current_time)

\* handle_button_state_logic
handle_button_state_logic(app, current_time) ==
    LET released_buttons ==
            {bname \in RadioButtonNames :
                ~app.button_states[bname].down /\ ~app.button_states[bname].handled}
    IN  IF released_buttons = {} THEN app
        ELSE IF "forward" \in released_buttons /\ "backward" \in released_buttons
        THEN [cycle_alarm_mode(app) EXCEPT !.button_states["forward"].handled = TRUE,
                                           !.button_states["backward"].handled = TRUE]
        ELSE HandleReleased(app, released_buttons, 1, current_time)

\* the counters after the buttons were sampled: a button that went down is
\* a press, a button that went up completed a press-release cycle
Sampled(app, button_states) ==
    [app EXCEPT
        !.button_states = button_states,
        !.presses = @ + Cardinality({name \in RadioButtonNames :
                          ~app.button_states[name].down /\ button_states[name].down}),
        !.cycles = [name \in RadioButtonNames |->
                      IF app.button_states[name].down /\ ~button_states[name].down
                      THEN @[name] + 1 ELSE @[name]]]

\* run(): self.check_alarms()
RunCheckAlarms ==
    /\ probe.pc = "alarms"
    /\ \E match1 \in BOOLEAN, match2 \in BOOLEAN :
          probe' = [check_alarms(probe, match1, match2) EXCEPT !.pc = "events"]
    /\ UNCHANGED <<tree, audio, ui, hw, mainpc, settings, now, last_time>>

\* run() on the Pi: read_touch_sensors(), update_button_state_pi
UpdateButtonStatePi ==
    /\ probe.pc = "events"
    /\ ~probe.pc_mode
    /\ \E sensor_state \in [RadioButtonNames -> BOOLEAN] :
          LET app == Sampled(probe, update_button_state_pi(probe.button_states,
                                                            sensor_state, now))
          IN  /\ app.presses <= MaxPresses
              /\ probe' = [app EXCEPT !.pc = "logic"]
    /\ UNCHANGED <<tree, audio, ui, hw, mainpc, settings, now, last_time>>

\* run() with pygame: one KEYDOWN or KEYUP event of pygame.event.get()
UpdateButtonStatePygame ==
    /\ probe.pc = "events"
    /\ probe.pc_mode
    /\ \E name \in RadioButtonNames, pressed \in BOOLEAN :
          LET app == Sampled(probe, update_button_state_pygame(probe.button_states,
                                                                name, pressed, now))
          IN  /\ app.presses <= MaxPresses
              /\ app # probe
              /\ probe' = app
    /\ UNCHANGED <<tree, audio, ui, hw, mainpc, settings, now, last_time>>

\* run() with pygame: the events of this iteration have been handled
EventsHandled ==
    /\ probe.pc = "events"
    /\ probe.pc_mode
    /\ probe' = [probe EXCEPT !.pc = "logic"]
    /\ UNCHANGED <<tree, audio, ui, hw, mainpc, settings, now, last_time>>

\* run(): self.handle_button_state_logic(); a button whose handled flag is
\* set had its action run
HandleButtonStateLogic ==
    /\ probe.pc = "logic"
    /\ LET app == handle_button_state_logic(probe, now)
       IN  probe' = [app EXCEPT
                        !.pc = "alarms",
                        !.runs = [name \in RadioButtonNames |->
                                    IF ~probe.button_states[name].handled
                                       /\ app.button_states[name].handled
                                    THEN @[name] + 1 ELSE @[name]]]
    /\ UNCHANGED <<tree, audio, ui, hw, mainpc, settings, now, last_time>>

InitRadio ==
    /\ tree = TreeUnmounted
    /\ audio = AudioManagerInit
    /\ ui = UIStateInit
    /\ hw = HardwareInit
    /\ settings = SettingsInit
    /\ now = LONG_PRESS_THRESHOLD
    /\ last_time = 0
    /\ mainpc = "loop"
    /\ probe \in {[RadioWeckerInit EXCEPT !.pc_mode = pc_mode] : pc_mode \in BOOLEAN}

NextRadio ==
    \/ RunCheckAlarms
    \/ UpdateButtonStatePi
    \/ UpdateButtonStatePygame
    \/ EventsHandled
    \/ HandleButtonStateLogic
    \/ Tick

SpecRadio == InitRadio /\ [][NextRadio]_vars

\* C39: in the on-release handling of radio.py a button's action runs only
\* after that button was pressed and then released, and once per
\* press-release cycle: a button's action never ran more often than the
\* button completed cycles; and while no button has been pressed, standby,
\* source and alarm mode have their initial values.
C39_ActionOncePerPressRelease ==
    /\ \A name \in RadioButtonNames : probe.runs[name] <= probe.cycles[name]
    /\ (probe.presses = 0) =>
          /\ probe.standby = RadioWeckerInit.standby
          /\ probe.current_source_idx = RadioWeckerInit.current_source_idx
          /\ probe.alarm_mode = RadioWeckerInit.alarm_mode
====
